---- MODULE Spec2Model ----
(***************************************************************************)
(* Provider selection and fallback of src/metagpt/multi_llm_provider.py:   *)
(* FallbackProvider (the fallback chain) and SmartProviderFactory (the     *)
(* three selection policies); the roles of                                 *)
(* src/metagpt/metagpt_multi_llm.py and the executor of the provider they  *)
(* share; the calls of the concrete providers, ClaudeCodeLLM of            *)
(* src/metagpt/claude_code_llm.py among them; and the conversions of a     *)
(* conversation (the two flatteners, the Anthropic request).               *)
(*                                                                         *)
(* Texts are sequences of one-character strings, so that lower-casing,     *)
(* substring search and the "[name] " tag are computed as Python computes  *)
(* them.                                                                   *)
(***************************************************************************)
EXTENDS Integers, Sequences, FiniteSets, TLC

VARIABLES
    env,            \* the process environment the factory probes
    prefer_api,     \* argument of the create_best_available call
    bestPc,         \* position inside create_best_available
    bestProviders,  \* its local list `providers`
    probeLog,       \* history: what each block of create_best_available did
    bestRet,        \* outcome of create_best_available
    fastRet,        \* outcome of create_fast_provider
    freeRet,        \* outcome of create_free_provider
    llm,            \* the provider object the caller holds and asks
    chainPc,        \* position of the acompletion_text call on llm
    idx,            \* FallbackProvider loop: index of the provider awaited
    calls,          \* history: every provider call made, with its outcome
    result,         \* outcome of the acompletion_text call on llm
    blocking,       \* outcome of the completion_text call on llm
    team,           \* the FastTeam constructed, with the provider it holds
    jobs,           \* every blocking backend call of the shared provider
    roles,          \* each BaseRole: position in run, response, memory
    sync,           \* each caller of the blocking form completion_text
    made,           \* the provider object constructed directly
    reply,          \* what a call on that provider handed back
    messages,       \* the conversation given to a flattener or converter
    messages0,      \* history: the conversation as the caller built it
    prompts,        \* history: each flattened prompt produced
    request,        \* the request AnthropicProvider sent
    project,        \* the run_fast_project call of a team: position, results
    fs,             \* the project path as the file system shows it
    invocations     \* history: each subprocess.run of the context-aware LLM

vars == <<env, prefer_api, bestPc, bestProviders, probeLog, bestRet, fastRet,
          freeRet, llm, chainPc, idx, calls, result, blocking, team, jobs, roles, sync,
          made, reply, messages, messages0, prompts, request, project, fs,
          invocations>>

factoryVars == <<env, prefer_api, bestPc, bestProviders, probeLog, bestRet,
                 fastRet, freeRet>>

chainVars == <<chainPc, idx, calls, result, blocking>>

roleVars == <<jobs, roles, sync>>

providerVars == <<made, reply>>

textVars == <<messages, messages0, prompts, request>>

projectVars == <<project>>

contextVars == <<fs, invocations>>

\* Longest FallbackProvider list constructed directly (not by the factory).
MaxChain == 3

(***************************************************************************)
(* Text                                                                    *)
(***************************************************************************)
UpperLetters == <<"A", "B", "C", "D", "E", "F", "G", "H", "I", "J", "K", "L", "M", "N", "O", "P", "Q", "R", "S", "T", "U", "V", "W", "X", "Y", "Z">>

LowerLetters == <<"a", "b", "c", "d", "e", "f", "g", "h", "i", "j", "k", "l", "m", "n", "o", "p", "q", "r", "s", "t", "u", "v", "w", "x", "y", "z">>

LowerChar(c) ==
    IF \E i \in 1..26 : UpperLetters[i] = c
    THEN LowerLetters[CHOOSE i \in 1..26 : UpperLetters[i] = c]
    ELSE c

\* str.lower()
Lower(s) == [i \in 1..Len(s) |-> LowerChar(s[i])]

\* `sub in s` on Python strings
Contains(s, sub) ==
    \E i \in 0..(Len(s) - Len(sub)) : SubSeq(s, i + 1, i + Len(sub)) = sub

\* ['error:', 'timeout', 'failed', 'exception']
ErrorTerms ==
    << <<"e", "r", "r", "o", "r", ":">>,
       <<"t", "i", "m", "e", "o", "u", "t">>,
       <<"f", "a", "i", "l", "e", "d">>,
       <<"e", "x", "c", "e", "p", "t", "i", "o", "n">> >>

\* "All providers failed"
AllProvidersFailed == <<"A", "l", "l", " ", "p", "r", "o", "v", "i", "d", "e", "r", "s", " ", "f", "a", "i", "l", "e", "d">>

\* provider.name of the four concrete providers, as text
NameText(name) ==
    CASE name = "ClaudeCode" -> <<"C", "l", "a", "u", "d", "e", "C", "o", "d", "e">>
      [] name = "OpenAI"     -> <<"O", "p", "e", "n", "A", "I">>
      [] name = "Anthropic"  -> <<"A", "n", "t", "h", "r", "o", "p", "i", "c">>
      [] name = "Ollama"     -> <<"O", "l", "l", "a", "m", "a">>
      [] OTHER               -> <<"F", "a", "l", "l", "b", "a", "c", "k">>

ProviderNames == {"OpenAI", "Anthropic", "Ollama", "ClaudeCode"}

(***************************************************************************)
(* What a provider's acompletion_text can hand back: a text (clean, or an  *)
(* error carried as text, as the providers' own error paths produce), a    *)
(* value that is no string (an API response whose content is None), or an  *)
(* exception.                                                              *)
(***************************************************************************)
ResponseTexts ==
    { <<"h", "e", "l", "l", "o">>,
      << >>,
      <<"E", "r", "r", "o", "r", " ", "h", "a", "n", "d", "l", "i", "n", "g">>,
      <<"C", "l", "a", "u", "d", "e", " ", "C", "o", "d", "e", " ", "E", "r", "r", "o", "r", ":", " ", "x">>,
      <<"C", "l", "a", "u", "d", "e", " ", "C", "o", "d", "e", " ", "t", "i", "m", "e", "o", "u", "t", " ", "a", "f", "t", "e", "r", " ", "3", "0", "0", "s">>,
      <<"B", "u", "i", "l", "d", " ", "F", "A", "I", "L", "E", "D">>,
      <<"c", "a", "t", "c", "h", " ", "t", "h", "e", " ", "E", "x", "c", "e", "p", "t", "i", "o", "n">> }

Outcomes ==
    [kind : {"text"}, text : ResponseTexts]
        \cup {[kind |-> "none", text |-> << >>], [kind |-> "raise", text |-> << >>]}

NoResult == [status |-> "none", text |-> << >>]

Returned(t) == [status |-> "returned", text |-> t]

ReturnedNone == [status |-> "returned_none", text |-> << >>]

Raised == [status |-> "raised", text |-> << >>]

(***************************************************************************)
(* FallbackProvider                                                        *)
(***************************************************************************)
NoProvider == [name |-> "None", providers |-> << >>]

\* A concrete provider object (BaseLLMProvider.__init__ sets its name).
Provider(name) == [name |-> name, providers |-> << >>]

\* FallbackProvider.__init__
FallbackProvider(ps) == [name |-> "Fallback", providers |-> ps]

\* IsErrorResponse without the .lower(): the terms are matched case-sensitively.
IsErrorResponseCaseSensitive(t) ==
    \E j \in DOMAIN ErrorTerms : Contains(t, ErrorTerms[j])

\* any(error_term in result.lower() for error_term in [...])
IsErrorResponse(t) ==
    \E j \in DOMAIN ErrorTerms : Contains(Lower(t), ErrorTerms[j])

\* Tag without the brackets: f"{provider.name} {result}".
TagWithoutBrackets(name, t) == NameText(name) \o <<" ">> \o t

\* f"[{provider.name}] {result}"
Tag(name, t) == <<"[">> \o NameText(name) \o <<"]", " ">> \o t

\* AfterCall without the try/except: an exception of the provider propagates.
AfterCallNoCatch(name, out) ==
    IF out.kind = "text" /\ ~IsErrorResponse(out.text)
    THEN [do |-> "return", text |-> Tag(name, out.text)]
    ELSE IF out.kind = "text" THEN [do |-> "next", text |-> << >>]
    ELSE [do |-> "raise", text |-> << >>]

\* AfterCall whose except branch leaves the loop (break instead of continue).
AfterCallBreakOnRaise(name, out) ==
    IF out.kind = "text" /\ ~IsErrorResponse(out.text)
    THEN [do |-> "return", text |-> Tag(name, out.text)]
    ELSE IF out.kind = "text" THEN [do |-> "next", text |-> << >>]
    ELSE [do |-> "return", text |-> AllProvidersFailed]

\* One iteration of the loop after the await: what the try/except decides.
\* A value that is no string has no .lower(): the AttributeError is raised
\* inside the try and caught like an exception of the provider.
AfterCall(name, out) ==
    CASE out.kind = "raise" -> [do |-> "next", text |-> << >>]
      [] out.kind = "none" -> [do |-> "next", text |-> << >>]
      [] IsErrorResponse(out.text) -> [do |-> "next", text |-> << >>]
      [] OTHER -> [do |-> "return", text |-> Tag(name, out.text)]

\* FallbackProvider.acompletion_text is entered: the loop reaches its first
\* await, or falls through at once when the list is empty.
ChainStart ==
    /\ chainPc = "idle"
    /\ llm.name = "Fallback"
    /\ IF llm.providers = << >>
       THEN /\ chainPc' = "done"
            /\ result' = Returned(AllProvidersFailed)
       ELSE /\ chainPc' = "awaiting"
            /\ result' = result
    /\ idx' = 1
    /\ calls' = << >>
    /\ UNCHANGED <<factoryVars, llm, blocking>>
    /\ UNCHANGED <<team, roleVars, providerVars, textVars, projectVars, contextVars>>

\* The awaited provider call completes with some outcome, and the loop runs
\* on to its next await or to a return.
ChainStep ==
    /\ chainPc = "awaiting"
    /\ \E out \in Outcomes :
         LET name == llm.providers[idx]
             step == AfterCall(name, out)
         IN /\ calls' = Append(calls, [idx |-> idx, name |-> name, out |-> out])
            /\ CASE step.do = "return" ->
                      /\ result' = Returned(step.text)
                      /\ chainPc' = "done"
                      /\ idx' = idx
                 [] step.do = "raise" ->   \* an exception nothing caught ends the call
                      /\ result' = Raised
                      /\ chainPc' = "done"
                      /\ idx' = idx
                 [] OTHER ->
                      IF idx = Len(llm.providers)
                      THEN /\ result' = Returned(AllProvidersFailed)
                           /\ chainPc' = "done"
                           /\ idx' = idx
                      ELSE /\ result' = result
                           /\ chainPc' = "awaiting"
                           /\ idx' = idx + 1
    /\ UNCHANGED <<factoryVars, llm, blocking>>
    /\ UNCHANGED <<team, roleVars, providerVars, textVars, projectVars, contextVars>>

\* No completion_text call was made. in_loop: the caller runs inside an
\* active event loop.
NotCalledBlocking == [status |-> "none", text |-> << >>, in_loop |-> FALSE]

\* asyncio.run(coroutine) called where the coroutine would end with the
\* result given: inside a running event loop asyncio.run raises RuntimeError
\* (and never runs the coroutine), otherwise it runs the coroutine to its
\* end in a loop of its own and hands back what it returned or raised.
AsyncioRun(in_loop, coroutine_result) ==
    IF in_loop THEN Raised ELSE coroutine_result

\* completion_text of the provider the caller holds, for the provider
\* outcomes of `calls`, for which acompletion_text ended with `result`:
\* FallbackProvider returns asyncio.run(self.acompletion_text(messages)),
\* a concrete provider calls the function acompletion_text runs in the
\* executor.
CompletionTextCall ==
    /\ chainPc = "done"
    /\ blocking.status = "none"
    /\ \E in_loop \in BOOLEAN :
         blocking' = (IF llm.name = "Fallback" THEN AsyncioRun(in_loop, result) ELSE result)
                         @@ [in_loop |-> in_loop]
    /\ UNCHANGED <<factoryVars, llm, chainPc, idx, calls, result>>
    /\ UNCHANGED <<team, roleVars, providerVars, textVars, projectVars, contextVars>>

(***************************************************************************)
(* The environment SmartProviderFactory probes                             *)
(***************************************************************************)
\* os.getenv of a credential variable: unset (None), set to "", or set.
KeyValues == {"None", "", "sk-test"}

\* Python truthiness of an Optional[str]
Truthy(v) == v \notin {"None", ""}

\* Seconds the local endpoint takes to answer, when it answers.
Latencies == {1, 3}

\* timeout=5 of the probe in create_best_available
ProbeTimeoutBest == 5

\* timeout=2 of the probe in create_fast_provider and create_free_provider
ProbeTimeoutFast == 2

Envs ==
    {e \in [OPENAI_API_KEY : KeyValues, ANTHROPIC_API_KEY : KeyValues,
            openai_lib : BOOLEAN, anthropic_lib : BOOLEAN, requests_lib : BOOLEAN,
            endpoint : {"refused", "http200", "http404"}, latency : Latencies,
            cwd_ok : BOOLEAN] :
        e.endpoint = "refused" => e.latency = 1}

DefaultEnv ==
    [OPENAI_API_KEY |-> "None", ANTHROPIC_API_KEY |-> "None", openai_lib |-> FALSE,
     anthropic_lib |-> FALSE, requests_lib |-> FALSE, endpoint |-> "refused",
     latency |-> 1, cwd_ok |-> TRUE]

(***************************************************************************)
(* Constructors: "none", or the exception __init__ raises                  *)
(***************************************************************************)
\* OpenAIProvider.__init__ reading the environment variable first.
OpenAIProviderInitEnvFirst(api_key, e) ==
    LET key == IF Truthy(e.OPENAI_API_KEY) THEN e.OPENAI_API_KEY ELSE api_key
    IN [exc |-> IF ~Truthy(key) THEN "ValueError"
                ELSE IF ~e.openai_lib THEN "ImportError"
                ELSE "none",
        api_key |-> key]

\* OpenAIProvider.__init__: self.api_key = api_key or os.getenv(...)
OpenAIProviderInit(api_key, e) ==
    LET key == IF Truthy(api_key) THEN api_key ELSE e.OPENAI_API_KEY
    IN [exc |-> IF ~Truthy(key) THEN "ValueError"
                ELSE IF ~e.openai_lib THEN "ImportError"
                ELSE "none",
        api_key |-> key]

\* AnthropicProvider.__init__
AnthropicProviderInit(api_key, e) ==
    LET key == IF Truthy(api_key) THEN api_key ELSE e.ANTHROPIC_API_KEY
    IN [exc |-> IF ~Truthy(key) THEN "ValueError"
                ELSE IF ~e.anthropic_lib THEN "ImportError"
                ELSE "none",
        api_key |-> key]

\* OllamaProvider.__init__: import requests
OllamaProviderInit(e) ==
    [exc |-> IF e.requests_lib THEN "none" ELSE "ImportError"]

\* ClaudeCodeProvider.__init__: self.project_path = project_path or os.getcwd()
\* (os.getcwd raises FileNotFoundError when the working directory is gone)
ClaudeCodeProviderInit(project_path, e) ==
    [exc |-> IF ~Truthy(project_path) /\ ~e.cwd_ok THEN "FileNotFoundError" ELSE "none"]

\* import requests; requests.get("http://localhost:11434/api/tags", timeout=t)
RequestsGet(e, t) ==
    IF ~e.requests_lib THEN [exc |-> "ImportError", status_code |-> 0]
    ELSE IF e.endpoint = "refused" THEN [exc |-> "ConnectionError", status_code |-> 0]
    ELSE IF e.latency >= t THEN [exc |-> "Timeout", status_code |-> 0]
    ELSE [exc |-> "none", status_code |-> IF e.endpoint = "http200" THEN 200 ELSE 404]

(***************************************************************************)
(* SmartProviderFactory                                                    *)
(***************************************************************************)
NotCalled == [status |-> "none", exc |-> "none", provider |-> NoProvider]

ReturnedProvider(p) == [status |-> "returned", exc |-> "none", provider |-> p]

RaisedError(x) == [status |-> "raised", exc |-> x, provider |-> NoProvider]

\* TryAppend with providers.insert(0, X()) in place of providers.append(X()).
TryInsertFirst(ps, name, exc) == IF exc = "none" THEN <<name>> \o ps ELSE ps

\* TryAppend that appends the candidate before its construction is known to
\* have succeeded.
TryAppendUnguarded(ps, name, exc) == IF exc = "no_key" THEN ps ELSE Append(ps, name)

\* try: providers.append(X()) / except Exception: print(...)
TryAppend(ps, name, exc) == IF exc = "none" THEN Append(ps, name) ELSE ps

\* SelectProvider without the len(providers) == 1 case.
SelectProviderAlwaysWrap(ps) ==
    IF ps = << >> THEN RaisedError("RuntimeError")
    ELSE ReturnedProvider(FallbackProvider(ps))

\* SelectProvider raising unless there is something to chain (len < 2).
SelectProviderNeedsTwo(ps) ==
    IF Len(ps) < 2 THEN RaisedError("RuntimeError")
    ELSE ReturnedProvider(FallbackProvider(ps))

\* the end of create_best_available: raise, the only provider, or a chain
SelectProvider(ps) ==
    IF ps = << >> THEN RaisedError("RuntimeError")
    ELSE IF Len(ps) = 1 THEN ReturnedProvider(Provider(ps[1]))
    ELSE ReturnedProvider(FallbackProvider(ps))

LogEntry(cand, outcome, after) ==
    [cand |-> cand, outcome |-> outcome, before |-> bestProviders, after |-> after]

\* create_best_available(prefer_api) is entered: providers = []
BestStart ==
    /\ bestPc = "idle"
    /\ \E p \in BOOLEAN :
         /\ prefer_api' = p
         /\ bestPc' = IF p THEN "openai" ELSE "claude"
    /\ bestProviders' = << >>
    /\ probeLog' = << >>
    /\ UNCHANGED <<env, bestRet, fastRet, freeRet, llm, chainVars>>
    /\ UNCHANGED <<team, roleVars, providerVars, textVars, projectVars, contextVars>>

\* # Try OpenAI
TryOpenAI ==
    /\ bestPc = "openai"
    /\ LET exc == IF Truthy(env.OPENAI_API_KEY)
                  THEN OpenAIProviderInit("None", env).exc
                  ELSE "no_key"
           after == TryAppend(bestProviders, "OpenAI", exc)
       IN /\ bestProviders' = after
          /\ probeLog' = Append(probeLog, LogEntry("OpenAI", exc, after))
    /\ bestPc' = "anthropic"
    /\ UNCHANGED <<env, prefer_api, bestRet, fastRet, freeRet, llm, chainVars>>
    /\ UNCHANGED <<team, roleVars, providerVars, textVars, projectVars, contextVars>>

\* # Try Anthropic
TryAnthropic ==
    /\ bestPc = "anthropic"
    /\ LET exc == IF Truthy(env.ANTHROPIC_API_KEY)
                  THEN AnthropicProviderInit("None", env).exc
                  ELSE "no_key"
           after == TryAppend(bestProviders, "Anthropic", exc)
       IN /\ bestProviders' = after
          /\ probeLog' = Append(probeLog, LogEntry("Anthropic", exc, after))
    /\ bestPc' = "ollama"
    /\ UNCHANGED <<env, prefer_api, bestRet, fastRet, freeRet, llm, chainVars>>
    /\ UNCHANGED <<team, roleVars, providerVars, textVars, projectVars, contextVars>>

\* The probe block of create_best_available: "none" when OllamaProvider() is
\* to be appended, else why it is not.
OllamaProbeBest(e) ==
    LET r == RequestsGet(e, ProbeTimeoutBest)
    IN IF r.exc # "none" THEN r.exc
       ELSE IF r.status_code = 200 THEN OllamaProviderInit(e).exc
       ELSE "not_200"

\* # Try Ollama (local, free)
TryOllama ==
    /\ bestPc = "ollama"
    /\ LET exc == OllamaProbeBest(env)
           after == TryAppend(bestProviders, "Ollama", exc)
       IN /\ bestProviders' = after
          /\ probeLog' = Append(probeLog, LogEntry("Ollama", exc, after))
    /\ bestPc' = "claude"
    /\ UNCHANGED <<env, prefer_api, bestRet, fastRet, freeRet, llm, chainVars>>
    /\ UNCHANGED <<team, roleVars, providerVars, textVars, projectVars, contextVars>>

\* # Always add Claude Code as fallback
AddClaudeCode ==
    /\ bestPc = "claude"
    /\ LET exc == ClaudeCodeProviderInit("None", env).exc
           after == TryAppend(bestProviders, "ClaudeCode", exc)
       IN /\ bestProviders' = after
          /\ probeLog' = Append(probeLog, LogEntry("ClaudeCode", exc, after))
    /\ bestPc' = "select"
    /\ UNCHANGED <<env, prefer_api, bestRet, fastRet, freeRet, llm, chainVars>>
    /\ UNCHANGED <<team, roleVars, providerVars, textVars, projectVars, contextVars>>

\* if not providers: raise ... / return providers[0] / return FallbackProvider(providers)
\* The caller keeps what is returned (provider = create_best_available()).
BestReturn ==
    /\ bestPc = "select"
    /\ bestRet' = SelectProvider(bestProviders)
    /\ llm' = bestRet'.provider
    /\ bestPc' = "done"
    /\ UNCHANGED <<env, prefer_api, bestProviders, probeLog, fastRet, freeRet, chainVars>>
    /\ UNCHANGED <<team, roleVars, providerVars, textVars, projectVars, contextVars>>

\* return ClaudeCodeProvider(timeout=...) outside any try
ClaudeCodeOrRaise(e) ==
    LET exc == ClaudeCodeProviderInit("None", e).exc
    IN IF exc = "none" THEN ReturnedProvider(Provider("ClaudeCode")) ELSE RaisedError(exc)

\* The probe block of create_fast_provider / create_free_provider: the
\* response of requests.get is not looked at.
OllamaProbeFast(e) ==
    LET r == RequestsGet(e, ProbeTimeoutFast)
    IN IF r.exc # "none" THEN r.exc ELSE OllamaProviderInit(e).exc

\* create_free_provider that takes the hosted API when its key is set.
CreateFreeProviderWithKey(e) ==
    IF Truthy(e.OPENAI_API_KEY) /\ OpenAIProviderInit("None", e).exc = "none"
    THEN ReturnedProvider(Provider("OpenAI"))
    ELSE IF OllamaProbeFast(e) = "none" THEN ReturnedProvider(Provider("Ollama"))
    ELSE ClaudeCodeOrRaise(e)

\* SmartProviderFactory.create_free_provider
CreateFreeProvider(e) ==
    IF OllamaProbeFast(e) = "none" THEN ReturnedProvider(Provider("Ollama"))
    ELSE ClaudeCodeOrRaise(e)

\* create_fast_provider that returns OllamaProvider() without probing the
\* local endpoint first.
CreateFastProviderNoProbe(e) ==
    IF Truthy(e.OPENAI_API_KEY) /\ OpenAIProviderInit("None", e).exc = "none"
    THEN ReturnedProvider(Provider("OpenAI"))
    ELSE IF Truthy(e.ANTHROPIC_API_KEY) /\ AnthropicProviderInit("None", e).exc = "none"
    THEN ReturnedProvider(Provider("Anthropic"))
    ELSE ReturnedProvider(Provider("Ollama"))

\* create_fast_provider without the try around OpenAIProvider() and
\* AnthropicProvider(): a constructor's exception propagates.
CreateFastProviderNoTry(e) ==
    IF Truthy(e.OPENAI_API_KEY)
    THEN (IF OpenAIProviderInit("None", e).exc = "none"
          THEN ReturnedProvider(Provider("OpenAI"))
          ELSE RaisedError(OpenAIProviderInit("None", e).exc))
    ELSE IF Truthy(e.ANTHROPIC_API_KEY)
    THEN (IF AnthropicProviderInit("None", e).exc = "none"
          THEN ReturnedProvider(Provider("Anthropic"))
          ELSE RaisedError(AnthropicProviderInit("None", e).exc))
    ELSE IF OllamaProbeFast(e) = "none" THEN ReturnedProvider(Provider("Ollama"))
    ELSE ClaudeCodeOrRaise(e)

\* SmartProviderFactory.create_fast_provider
CreateFastProvider(e) ==
    IF Truthy(e.OPENAI_API_KEY) /\ OpenAIProviderInit("None", e).exc = "none"
    THEN ReturnedProvider(Provider("OpenAI"))
    ELSE IF Truthy(e.ANTHROPIC_API_KEY) /\ AnthropicProviderInit("None", e).exc = "none"
    THEN ReturnedProvider(Provider("Anthropic"))
    ELSE IF OllamaProbeFast(e) = "none" THEN ReturnedProvider(Provider("Ollama"))
    ELSE ClaudeCodeOrRaise(e)

CreateFast ==
    /\ fastRet.status = "none"
    /\ fastRet' = CreateFastProvider(env)
    /\ UNCHANGED <<env, prefer_api, bestPc, bestProviders, probeLog, bestRet, freeRet,
                   llm, chainVars>>
    /\ UNCHANGED <<team, roleVars, providerVars, textVars, projectVars, contextVars>>

CreateFree ==
    /\ freeRet.status = "none"
    /\ freeRet' = CreateFreeProvider(env)
    /\ UNCHANGED <<env, prefer_api, bestPc, bestProviders, probeLog, bestRet, fastRet,
                   llm, chainVars>>
    /\ UNCHANGED <<team, roleVars, providerVars, textVars, projectVars, contextVars>>

\* acompletion_text of a single concrete provider, awaited by the caller:
\* whatever the provider hands back reaches the caller as it is.
DirectCall ==
    /\ chainPc = "idle"
    /\ llm.name \in ProviderNames
    /\ \E out \in Outcomes :
         /\ calls' = <<[idx |-> 1, name |-> llm.name, out |-> out]>>
         /\ result' = CASE out.kind = "text" -> Returned(out.text)
                        [] out.kind = "none" -> ReturnedNone
                        [] OTHER -> Raised
    /\ chainPc' = "done"
    /\ idx' = 1
    /\ UNCHANGED <<factoryVars, llm, blocking>>
    /\ UNCHANGED <<team, roleVars, providerVars, textVars, projectVars, contextVars>>

(***************************************************************************)
(* FastTeam (src/metagpt/metagpt_multi_llm.py)                             *)
(***************************************************************************)
NoTeam == [status |-> "none", prefer_api |-> TRUE, llm |-> NoProvider]

\* FastTeam.__init__(prefer_api = p): the policy call is outside any try, so
\* an exception of the policy ends the construction. WebAppFastTeam hands
\* self.llm to every role it hires, so the calls of the team are calls on it.
FastTeamInit ==
    /\ team.status = "none"
    /\ chainPc = "idle"
    /\ \E p \in BOOLEAN :
         LET r == IF p THEN CreateFastProvider(env) ELSE CreateFreeProvider(env)
         IN /\ team' = [status |-> r.status, prefer_api |-> p, llm |-> r.provider]
            /\ llm' = IF r.status = "returned" THEN r.provider ELSE llm
    /\ UNCHANGED <<factoryVars, chainVars, roleVars, providerVars, textVars, projectVars, contextVars>>

(***************************************************************************)
(* Roles and the executor of the provider they share: BaseRole.run of      *)
(* src/metagpt/metagpt_multi_llm.py, and BaseLLMProvider.__init__,         *)
(* acompletion_text and completion_text of                                 *)
(* src/metagpt/multi_llm_provider.py.                                      *)
(*                                                                         *)
(* A text is here a record of the pieces it is made of and the number of   *)
(* characters it has, which is all BaseRole.run looks at. The field job is *)
(* history: the backend call that produced the text, 0 when none did.      *)
(***************************************************************************)
\* Most blocking backend calls issued in one behaviour.
MaxJobs == 4

\* response[:200]
MemorySlice == 200

\* len(self.memory) > 3
MemoryLimit == 3

\* self.memory[-2:]
MemoryKept == 2

\* Two of the roles WebAppFastTeam hires; they hold the same provider.
Roles == {"ProductManager", "Architect"}

RoleNameLen == [ProductManager |-> 14, Architect |-> 9, FrontendEngineer |-> 16,
                BackendEngineer |-> 15, QualityAssurance |-> 16]

\* len(step_name) of the implementation steps
StepNameLen == [html_structure |-> 14, css_styling |-> 11, javascript_core |-> 15,
                integration |-> 11]

\* super().__init__(llm, name, profile) of the role classes
Profile == [ProductManager |-> "Product Manager", Architect |-> "Software Architect",
            FrontendEngineer |-> "Frontend Engineer", BackendEngineer |-> "Backend Engineer",
            QualityAssurance |-> "QA Engineer"]

\* _get_role_prompt of the role classes
RolePrompt ==
    [ProductManager |-> "You are an experienced Product Manager. Focus on clear, actionable requirements.\n        Keep responses focused and practical. Limit to 500 words max.",
     Architect |-> "You are a Senior Software Architect. Design practical, implementable solutions.\n        Focus on technical clarity and feasibility. Limit to 800 words max.",
     FrontendEngineer |-> "You are a Frontend Engineer specialized in HTML, CSS, and JavaScript.\n        Create clean, working code with modern practices. Focus on one component at a time.",
     BackendEngineer |-> "You are a Backend Engineer. Focus on data persistence, API design, and server logic.\n        Provide practical, working solutions. Keep code examples concise.",
     QualityAssurance |-> "You are a QA Engineer. Design practical testing strategies.\n        Focus on essential test cases and real-world scenarios. Limit to 600 words max."]

\* Threads that use the blocking form completion_text of that provider.
SyncCallers == {"thread"}

\* What the backend hands back when it finishes: a short and a long text.
BackendTexts == {[body |-> <<"short answer">>, len |-> 12],
                 [body |-> <<"long answer">>, len |-> 250]}

NoText == [body |-> << >>, len |-> 0, job |-> 0]

\* response = "" in the place of the sentinel.
TimeoutSentinelEmpty(name) == NoText

\* f"Task timed out for {self.name}. Consider breaking into smaller steps."
TimeoutSentinel(name) ==
    [body |-> <<"Task timed out for ", name, ". Consider breaking into smaller steps.">>,
     len |-> 19 + RoleNameLen[name] + 39,
     job |-> 0]

\* f"{self.name}: {response[:200]}..."
MemoryEntry(name, response) ==
    LET kept == IF response.len > MemorySlice THEN MemorySlice ELSE response.len
    IN [body |-> <<name, ": ", response.body, "...">>,
        len |-> RoleNameLen[name] + 2 + kept + 3,
        job |-> response.job]

\* ManageMemory cutting back as soon as the limit is reached (>= 3).
ManageMemoryCutsAtLimit(memory, entry) ==
    LET appended == Append(memory, entry)
    IN IF Len(appended) >= MemoryLimit
       THEN SubSeq(appended, Len(appended) - MemoryKept + 1, Len(appended))
       ELSE appended

\* self.memory.append(...); if len(self.memory) > 3: self.memory = self.memory[-2:]
ManageMemory(memory, entry) ==
    LET appended == Append(memory, entry)
    IN IF Len(appended) > MemoryLimit
       THEN SubSeq(appended, Len(appended) - MemoryKept + 1, Len(appended))
       ELSE appended

\* list.insert(i, x)
Insert(list, i, x) == SubSeq(list, 1, i) \o <<x>> \o SubSeq(list, i + 1, Len(list))

\* self.memory[-2:]
RecentMemory(memory) ==
    IF Len(memory) <= MemoryKept THEN memory
    ELSE SubSeq(memory, Len(memory) - MemoryKept + 1, Len(memory))

\* A message of a role's conversation: its content is the pieces of
\* `content` followed by the memory entries of `joined`, which "\\n".join
\* puts one after the other with the separator between them.
Message(role, content, joined) == [role |-> role, content |-> content, joined |-> joined]

\* RoleMessages putting the whole memory into the context message.
RoleMessagesWholeMemory(name, memory, instruction) ==
    LET messages2 == <<Message("system", <<"You are a ", Profile[name], ". ", RolePrompt[name]>>, << >>),
                       Message("user", instruction, << >>)>>
    IN IF memory # << >>
       THEN Insert(messages2, 1, Message("system", <<"Context: ">>, memory))
       ELSE messages2

\* BaseRole.run, the conversation it builds: messages = [system, user];
\* if self.memory: messages.insert(1, {"role": "system", "content": f"Context: {recent_memory}"})
RoleMessages(name, memory, instruction) ==
    LET messages2 == <<Message("system", <<"You are a ", Profile[name], ". ", RolePrompt[name]>>, << >>),
                       Message("user", instruction, << >>)>>
    IN IF memory # << >>
       THEN Insert(messages2, 1, Message("system", <<"Context: ">>, RecentMemory(memory)))
       ELSE messages2

NewRole == [pc |-> "idle", job |-> 0, response |-> NoText, memory |-> << >>]

\* The rest of BaseRole.run once `response` is bound: manage the memory and
\* return the response.
RoleReturn(name, response) ==
    [pc |-> "returned", job |-> roles[name].job, response |-> response,
     memory |-> ManageMemory(roles[name].memory, MemoryEntry(name, response))]

NewJob(caller, via, state) ==
    [caller |-> caller, via |-> via, state |-> state,
     future |-> IF via = "executor" THEN "pending" ELSE "none",
     expired |-> "no", result |-> NoText]

\* The calls the executor's worker thread is running.
PoolRunning == {j \in 1..Len(jobs) : jobs[j].via = "executor" /\ jobs[j].state = "running"}

\* The executor's work queue, oldest first.
PoolQueued == {j \in 1..Len(jobs) : jobs[j].via = "executor" /\ jobs[j].state = "queued"}

\* Every backend call of the provider that is in flight.
InFlight == {j \in 1..Len(jobs) : jobs[j].state = "running"}

\* BaseRole.run up to its await: wait_for(self.llm.acompletion_text(messages),
\* timeout=120), where acompletion_text hands _run_claude_command to
\* self.executor and awaits the future.
RoleRun(r) ==
    /\ roles[r].pc \in {"idle", "returned"}
    /\ Len(jobs) < MaxJobs
    /\ jobs' = Append(jobs, NewJob(r, "executor", "queued"))
    /\ roles' = [roles EXCEPT ![r].pc = "awaiting", ![r].job = Len(jobs) + 1]
    /\ UNCHANGED <<sync, factoryVars, llm, chainVars, team, providerVars, textVars, projectVars, contextVars>>

\* ThreadPoolExecutor with a second worker thread.
WorkerStartTwoWorkers ==
    /\ Cardinality(PoolRunning) < 2
    /\ PoolQueued # {}
    /\ LET j == CHOOSE q \in PoolQueued : \A o \in PoolQueued : q <= o
       IN jobs' = [jobs EXCEPT ![j].state = "running"]
    /\ UNCHANGED <<roles, sync, factoryVars, llm, chainVars, team, providerVars, textVars, projectVars, contextVars>>

\* ThreadPoolExecutor(max_workers=1): the one worker thread, when it runs
\* nothing, takes the oldest queued call and starts it.
WorkerStart ==
    /\ PoolRunning = {}
    /\ PoolQueued # {}
    /\ LET j == CHOOSE q \in PoolQueued : \A o \in PoolQueued : q <= o
       IN jobs' = [jobs EXCEPT ![j].state = "running"]
    /\ UNCHANGED <<roles, sync, factoryVars, llm, chainVars, team, providerVars, textVars, projectVars, contextVars>>

\* WorkerFinish that hands the result to the role also after its wait was
\* given up.
WorkerFinishDeliversLate ==
    /\ \E j \in PoolRunning, t \in BackendTexts :
         LET text == t @@ [job |-> j]
             r == jobs[j].caller
         IN /\ jobs' = [jobs EXCEPT ![j].state = "done", ![j].result = text,
                                    ![j].future = IF @ = "pending" THEN "done" ELSE @]
            /\ roles' = [roles EXCEPT ![r] = RoleReturn(r, text)]
    /\ UNCHANGED <<sync, factoryVars, llm, chainVars, team, providerVars, textVars, projectVars, contextVars>>

\* The call the worker runs finishes. Its result completes the future; the
\* role awaiting that future resumes with it. A future that was cancelled
\* takes no result.
WorkerFinish ==
    /\ \E j \in PoolRunning, t \in BackendTexts :
         LET text == t @@ [job |-> j]
             r == jobs[j].caller
         IN /\ jobs' = [jobs EXCEPT ![j].state = "done", ![j].result = text,
                                    ![j].future = IF @ = "pending" THEN "done" ELSE @]
            /\ roles' = IF jobs[j].future = "pending"
                        THEN [roles EXCEPT ![r] = RoleReturn(r, text)]
                        ELSE roles
    /\ UNCHANGED <<sync, factoryVars, llm, chainVars, team, providerVars, textVars, projectVars, contextVars>>

\* Timeout without the `except asyncio.TimeoutError`: the exception leaves
\* BaseRole.run.
TimeoutPropagates(r) ==
    /\ roles[r].pc = "awaiting"
    /\ LET j == roles[r].job
       IN jobs' = [jobs EXCEPT ![j].future = "cancelled", ![j].expired = jobs[j].state,
                               ![j].state = IF @ = "queued" THEN "skipped" ELSE @]
    /\ roles' = [roles EXCEPT ![r].pc = "raised"]
    /\ UNCHANGED <<sync, factoryVars, llm, chainVars, team, providerVars, textVars, projectVars, contextVars>>

\* Timeout that gives up the wait without cancelling the executor's work
\* item: a call still queued stays in the queue.
TimeoutLeavesQueued(r) ==
    /\ roles[r].pc = "awaiting"
    /\ LET j == roles[r].job
       IN jobs' = [jobs EXCEPT ![j].future = "cancelled", ![j].expired = jobs[j].state]
    /\ roles' = [roles EXCEPT ![r] = RoleReturn(r, TimeoutSentinel(r))]
    /\ UNCHANGED <<sync, factoryVars, llm, chainVars, team, providerVars, textVars, projectVars, contextVars>>

\* The 120 s of wait_for run out while the role awaits: the future is
\* cancelled (a call still queued is then never started, a call already
\* running goes on in the worker thread), TimeoutError is caught and the
\* sentinel becomes the response.
Timeout(r) ==
    /\ roles[r].pc = "awaiting"
    /\ LET j == roles[r].job
       IN jobs' = [jobs EXCEPT ![j].future = "cancelled", ![j].expired = jobs[j].state,
                               ![j].state = IF @ = "queued" THEN "skipped" ELSE @]
    /\ roles' = [roles EXCEPT ![r] = RoleReturn(r, TimeoutSentinel(r))]
    /\ UNCHANGED <<sync, factoryVars, llm, chainVars, team, providerVars, textVars, projectVars, contextVars>>

\* completion_text: _run_claude_command(prompt) is called in the calling
\* thread itself; self.executor is not used.
SyncCall(c) ==
    /\ sync[c].pc \in {"idle", "done"}
    /\ Len(jobs) < MaxJobs
    /\ jobs' = Append(jobs, NewJob(c, "direct", "running"))
    /\ sync' = [sync EXCEPT ![c].pc = "blocked", ![c].job = Len(jobs) + 1]
    /\ UNCHANGED <<roles, factoryVars, llm, chainVars, team, providerVars, textVars, projectVars, contextVars>>

\* The backend call of completion_text finishes and its text is returned.
SyncFinish(c) ==
    /\ sync[c].pc = "blocked"
    /\ \E t \in BackendTexts :
         LET j == sync[c].job
             text == t @@ [job |-> j]
         IN /\ jobs' = [jobs EXCEPT ![j].state = "done", ![j].result = text]
            /\ sync' = [sync EXCEPT ![c].pc = "done", ![c].response = text]
    /\ UNCHANGED <<roles, factoryVars, llm, chainVars, team, providerVars, textVars, projectVars, contextVars>>

(***************************************************************************)
(* One call on one concrete provider: the constructors above, and          *)
(* _run_claude_command / _make_completion of                               *)
(* src/metagpt/multi_llm_provider.py and of src/metagpt/claude_code_llm.py *)
(* for each thing the backend can do.                                      *)
(***************************************************************************)
\* The provider classes with a backend of their own.
ProviderClasses == ProviderNames \cup {"ClaudeCodeLLM"}

\* Values of an explicit api_key / project_path argument.
ArgValues == {"None", "", "sk-arg"}

\* ClaudeCodeLLM.__init__: self.project_path = project_path or os.getcwd()
ClaudeCodeLLMInit(project_path, e) ==
    [exc |-> IF ~Truthy(project_path) /\ ~e.cwd_ok THEN "FileNotFoundError" ELSE "none"]

\* X(arg) for the class X: the exception raised or "none", and the
\* credential the object holds.
Construct(class, arg, e) ==
    CASE class = "OpenAI" -> OpenAIProviderInit(arg, e)
      [] class = "Anthropic" -> AnthropicProviderInit(arg, e)
      [] class = "Ollama" -> OllamaProviderInit(e) @@ [api_key |-> "None"]
      [] class = "ClaudeCode" -> ClaudeCodeProviderInit(arg, e) @@ [api_key |-> "None"]
      [] OTHER -> ClaudeCodeLLMInit(arg, e) @@ [api_key |-> "None"]

Whitespace == {" ", "\n", "\t"}

RECURSIVE LStrip(_)
LStrip(s) == IF s # << >> /\ Head(s) \in Whitespace THEN LStrip(Tail(s)) ELSE s

RECURSIVE RStrip(_)
RStrip(s) ==
    IF s # << >> /\ s[Len(s)] \in Whitespace THEN RStrip(SubSeq(s, 1, Len(s) - 1)) ELSE s

\* str.strip()
Strip(s) == RStrip(LStrip(s))

\* What subprocess.run(['claude', '--print', prompt], ...) can do.
Stdouts == {<<" ", "o", "k", "\n">>, <<"d", "o", "n", "e">>, << >>}

Stderrs == {<<"x">>, << >>}

ExceptionTexts == {<<"b", "o", "o", "m">>}

NoOutcome ==
    [kind |-> "none", returncode |-> 0, stdout |-> << >>, stderr |-> << >>,
     status_code |-> 0, has_response |-> FALSE, text |-> << >>]

SubprocessOutcomes ==
    {[NoOutcome EXCEPT !.kind = "exit", !.stdout = o] : o \in Stdouts}
        \cup {[NoOutcome EXCEPT !.kind = "exit", !.returncode = 1, !.stderr = x] : x \in Stderrs}
        \cup {[NoOutcome EXCEPT !.kind = "TimeoutExpired"]}
        \cup {[NoOutcome EXCEPT !.kind = k, !.text = x] :
                 k \in {"FileNotFoundError", "Exception"}, x \in ExceptionTexts}

\* What requests.post(f"{base_url}/api/generate", ...) can do: a response
\* with a status code and a body (a JSON object with or without the key
\* 'response'), or an exception.
HttpOutcomes ==
    {[NoOutcome EXCEPT !.kind = "response", !.status_code = 200,
                       !.has_response = h, !.text = o] : h \in BOOLEAN, o \in Stdouts}
        \cup {[NoOutcome EXCEPT !.kind = "response", !.status_code = 500, !.text = x] :
                 x \in Stderrs}
        \cup {[NoOutcome EXCEPT !.kind = "Exception", !.text = x] : x \in ExceptionTexts}

\* What the vendor client can do: a completion whose content is a text, or
\* an exception.
ClientOutcomes ==
    {[NoOutcome EXCEPT !.kind = "completion", !.text = o] : o \in Stdouts}
        \cup {[NoOutcome EXCEPT !.kind = "Exception", !.text = x] : x \in ExceptionTexts}

BackendOutcomes(class) ==
    CASE class \in {"ClaudeCode", "ClaudeCodeLLM"} -> SubprocessOutcomes
      [] class = "Ollama" -> HttpOutcomes
      [] OTHER -> ClientOutcomes

ReturnedText(t) == [status |-> "returned", text |-> t]

RaisedException == [status |-> "raised", text |-> << >>]

NoReply == [status |-> "none", class |-> "none", form |-> "none",
            backend |-> NoOutcome, text |-> << >>]

\* str(response.status_code)
StatusText(n) == IF n = 200 THEN <<"2", "0", "0">> ELSE <<"5", "0", "0">>

\* str(self.timeout) for the default timeout=300
TimeoutText == <<"3", "0", "0">>

\* str(e) of the KeyError that response.json()['response'] raises
KeyErrorText == <<"'", "r", "e", "s", "p", "o", "n", "s", "e", "'">>

\* _run_claude_command with `except FileNotFoundError` as its only handler
\* besides TimeoutExpired.
RunClaudeCommandNoCatchAll(o) ==
    CASE o.kind = "exit" /\ o.returncode = 0 -> ReturnedText(Strip(o.stdout))
      [] o.kind = "exit" -> ReturnedText(<<"C", "l", "a", "u", "d", "e", " ", "C", "o", "d", "e", " ", "E", "r", "r", "o", "r", ":", " ">> \o o.stderr)
      [] o.kind = "TimeoutExpired" -> ReturnedText(<<"C", "l", "a", "u", "d", "e", " ", "C", "o", "d", "e", " ", "t", "i", "m", "e", "o", "u", "t", " ", "a", "f", "t", "e", "r", " ">> \o TimeoutText \o <<"s">>)
      [] o.kind = "FileNotFoundError" -> ReturnedText(<<"C", "l", "a", "u", "d", "e", " ", "C", "o", "d", "e", " ", "e", "r", "r", "o", "r", ":", " ">> \o o.text)
      [] OTHER -> RaisedException

\* ClaudeCodeProvider._run_claude_command
RunClaudeCommand(o) ==
    CASE o.kind = "exit" /\ o.returncode = 0 -> ReturnedText(Strip(o.stdout))
      [] o.kind = "exit" -> ReturnedText(<<"C", "l", "a", "u", "d", "e", " ", "C", "o", "d", "e", " ", "E", "r", "r", "o", "r", ":", " ">> \o o.stderr)
      [] o.kind = "TimeoutExpired" -> ReturnedText(<<"C", "l", "a", "u", "d", "e", " ", "C", "o", "d", "e", " ", "t", "i", "m", "e", "o", "u", "t", " ", "a", "f", "t", "e", "r", " ">> \o TimeoutText \o <<"s">>)
      [] OTHER -> ReturnedText(<<"C", "l", "a", "u", "d", "e", " ", "C", "o", "d", "e", " ", "e", "r", "r", "o", "r", ":", " ">> \o o.text)

\* ClaudeCodeLLM._run_claude_command
ClaudeCodeLLMRun(o) ==
    CASE o.kind = "exit" /\ o.returncode = 0 -> ReturnedText(Strip(o.stdout))
      [] o.kind = "exit" -> ReturnedText(<<"E", "r", "r", "o", "r", " ", "e", "x", "e", "c", "u", "t", "i", "n", "g", " ", "C", "l", "a", "u", "d", "e", " ", "C", "o", "d", "e", ":", " ">> \o o.stderr)
      [] o.kind = "TimeoutExpired" -> ReturnedText(<<"C", "l", "a", "u", "d", "e", " ", "C", "o", "d", "e", " ", "r", "e", "q", "u", "e", "s", "t", " ", "t", "i", "m", "e", "d", " ", "o", "u", "t">>)
      [] o.kind = "FileNotFoundError" -> ReturnedText(<<"C", "l", "a", "u", "d", "e", " ", "C", "o", "d", "e", " ", "C", "L", "I", " ", "n", "o", "t", " ", "f", "o", "u", "n", "d", ".", " ", "P", "l", "e", "a", "s", "e", " ", "e", "n", "s", "u", "r", "e", " ", "i", "t", "'", "s", " ", "i", "n", "s", "t", "a", "l", "l", "e", "d", " ", "a", "n", "d", " ", "i", "n", " ", "P", "A", "T", "H", ".">>)
      [] OTHER -> ReturnedText(<<"U", "n", "e", "x", "p", "e", "c", "t", "e", "d", " ", "e", "r", "r", "o", "r", ":", " ">> \o o.text)

\* OllamaProvider._make_completion
OllamaMakeCompletion(o) ==
    CASE o.kind = "response" /\ o.status_code = 200 /\ o.has_response -> ReturnedText(o.text)
      [] o.kind = "response" /\ o.status_code = 200 ->
             ReturnedText(<<"O", "l", "l", "a", "m", "a", " ", "E", "r", "r", "o", "r", ":", " ">> \o KeyErrorText)
      [] o.kind = "response" ->
             ReturnedText(<<"O", "l", "l", "a", "m", "a", " ", "E", "r", "r", "o", "r", ":", " ">> \o StatusText(o.status_code) \o <<" ", "-", " ">> \o o.text)
      [] OTHER -> ReturnedText(<<"O", "l", "l", "a", "m", "a", " ", "E", "r", "r", "o", "r", ":", " ">> \o o.text)

\* OpenAIProvider._make_completion
OpenAIMakeCompletion(o) ==
    IF o.kind = "completion" THEN ReturnedText(o.text)
    ELSE ReturnedText(<<"O", "p", "e", "n", "A", "I", " ", "A", "P", "I", " ", "E", "r", "r", "o", "r", ":", " ">> \o o.text)

\* AnthropicProvider._make_completion, as far as its return value goes
AnthropicMakeCompletion(o) ==
    IF o.kind = "completion" THEN ReturnedText(o.text)
    ELSE ReturnedText(<<"A", "n", "t", "h", "r", "o", "p", "i", "c", " ", "A", "P", "I", " ", "E", "r", "r", "o", "r", ":", " ">> \o o.text)

\* completion_text: the blocking form calls the function in the caller's
\* thread.
CompletionText(class, o) ==
    CASE class = "ClaudeCode" -> RunClaudeCommand(o)
      [] class = "ClaudeCodeLLM" -> ClaudeCodeLLMRun(o)
      [] class = "Ollama" -> OllamaMakeCompletion(o)
      [] class = "OpenAI" -> OpenAIMakeCompletion(o)
      [] OTHER -> AnthropicMakeCompletion(o)

\* acompletion_text: await loop.run_in_executor(self.executor, f, ...) hands
\* back what f returns and raises what f raises.
ACompletionText(class, o) == CompletionText(class, o)

NotMade == [class |-> "none", arg |-> "None", exc |-> "none", api_key |-> "None"]

\* X(arg): a provider object is constructed, or the constructor raises.
NewProvider ==
    /\ made.class = "none"
    /\ \E class \in ProviderClasses, arg \in ArgValues :
         made' = [class |-> class, arg |-> arg] @@ Construct(class, arg, env)
    /\ UNCHANGED <<reply, factoryVars, llm, chainVars, team, roleVars, textVars, projectVars, contextVars>>

\* One call of either form on the provider constructed, with whatever the
\* backend does.
CallProvider ==
    /\ made.class # "none"
    /\ made.exc = "none"
    /\ reply.status = "none"
    /\ \E form \in {"completion_text", "acompletion_text"}, o \in BackendOutcomes(made.class) :
         LET r == IF form = "completion_text" THEN CompletionText(made.class, o)
                  ELSE ACompletionText(made.class, o)
         IN reply' = [status |-> r.status, class |-> made.class, form |-> form,
                      backend |-> o, text |-> r.text]
    /\ UNCHANGED <<made, factoryVars, llm, chainVars, team, roleVars, textVars, projectVars, contextVars>>

(***************************************************************************)
(* Conversations: the two flatteners (_messages_to_prompt of               *)
(* BaseLLMProvider and of ClaudeCodeLLM) and the conversion               *)
(* AnthropicProvider._make_completion applies before it sends.             *)
(***************************************************************************)
\* Longest conversation.
MaxMessages == 3

\* How often each flattener is applied to the conversation.
MaxFlattens == 2

\* The three roles of a message, and one that is none of them.
MessageRoles == {"system", "user", "assistant", "tool"}

Contents == {<<"a">>, <<"b", "c">>}

Conversations == UNION {[1..n -> [role : MessageRoles, content : Contents]] : n \in 0..MaxMessages}

\* The role as f"{role}" prints it.
RoleText(role) ==
    CASE role = "system" -> <<"s", "y", "s", "t", "e", "m">>
      [] role = "user" -> <<"u", "s", "e", "r">>
      [] role = "assistant" -> <<"a", "s", "s", "i", "s", "t", "a", "n", "t">>
      [] OTHER -> <<"t", "o", "o", "l">>

\* sep.join(parts)
RECURSIVE Join(_, _)
Join(sep, parts) ==
    IF parts = << >> THEN << >>
    ELSE IF Len(parts) = 1 THEN parts[1]
    ELSE parts[1] \o sep \o Join(sep, Tail(parts))

\* The loop of BaseLLMProvider._messages_to_prompt: prompt_parts
RECURSIVE PromptParts(_)
PromptParts(ms) ==
    IF ms = << >> THEN << >>
    ELSE LET msg == Head(ms)
         IN CASE msg.role = "system" -> <<<<"S", "y", "s", "t", "e", "m", ":", " ">> \o msg.content>> \o PromptParts(Tail(ms))
              [] msg.role = "user" -> <<<<"U", "s", "e", "r", ":", " ">> \o msg.content>> \o PromptParts(Tail(ms))
              [] msg.role = "assistant" -> <<<<"A", "s", "s", "i", "s", "t", "a", "n", "t", ":", " ">> \o msg.content>> \o PromptParts(Tail(ms))
              [] OTHER -> PromptParts(Tail(ms))

\* The loop of ClaudeCodeLLM._messages_to_prompt: prompt_parts
RECURSIVE LLMPromptParts(_)
LLMPromptParts(ms) ==
    IF ms = << >> THEN << >>
    ELSE LET msg == Head(ms)
         IN CASE msg.role = "system" -> <<<<"S", "y", "s", "t", "e", "m", ":", " ">> \o msg.content>> \o LLMPromptParts(Tail(ms))
              [] msg.role = "user" -> <<<<"U", "s", "e", "r", ":", " ">> \o msg.content>> \o LLMPromptParts(Tail(ms))
              [] msg.role = "assistant" -> <<<<"A", "s", "s", "i", "s", "t", "a", "n", "t", ":", " ">> \o msg.content>> \o LLMPromptParts(Tail(ms))
              [] OTHER -> <<RoleText(msg.role) \o <<":", " ">> \o msg.content>>
                              \o LLMPromptParts(Tail(ms))

RECURSIVE Reversed(_)
Reversed(parts) ==
    IF parts = << >> THEN << >> ELSE Append(Reversed(Tail(parts)), Head(parts))

\* The separator of BaseLLMProvider: the Python literal "\\n\\n", which is
\* the four characters backslash, n, backslash, n.
BaseSeparator == <<"\\", "n", "\\", "n">>

\* The separator of ClaudeCodeLLM: the Python literal "\n\n", two newlines.
LLMSeparator == <<"\n", "\n">>

\* BaseLLMProvider._messages_to_prompt joining the newest block first.
MessagesToPromptNewestFirst(ms) ==
    IF ms = << >> THEN << >> ELSE Join(BaseSeparator, Reversed(PromptParts(ms)))

\* BaseLLMProvider._messages_to_prompt
MessagesToPrompt(ms) ==
    IF ms = << >> THEN << >> ELSE Join(BaseSeparator, PromptParts(ms))

\* ClaudeCodeLLM._messages_to_prompt
LLMMessagesToPrompt(ms) ==
    IF ms = << >> THEN << >> ELSE Join(LLMSeparator, LLMPromptParts(ms))

\* [msg['content'] for msg in messages if msg['role'] == 'system']
RECURSIVE SystemMsgs(_)
SystemMsgs(ms) ==
    IF ms = << >> THEN << >>
    ELSE IF Head(ms).role = "system" THEN <<Head(ms).content>> \o SystemMsgs(Tail(ms))
    ELSE SystemMsgs(Tail(ms))

\* [msg for msg in messages if msg['role'] != 'system']
RECURSIVE UserMsgs(_)
UserMsgs(ms) ==
    IF ms = << >> THEN << >>
    ELSE IF Head(ms).role # "system" THEN <<Head(ms)>> \o UserMsgs(Tail(ms))
    ELSE UserMsgs(Tail(ms))

\* The separator of the system prompt: the Python literal "\\n", the two
\* characters backslash, n.
SystemSeparator == <<"\\", "n">>

NoRequest == [status |-> "none", system |-> << >>, messages |-> << >>]

\* AnthropicRequest that sends only the last system message.
AnthropicRequestLastSystemOnly(ms) ==
    LET system_msgs == SystemMsgs(ms)
    IN [status |-> "sent",
        system |-> IF system_msgs # << >> THEN system_msgs[Len(system_msgs)] ELSE << >>,
        messages |-> UserMsgs(ms)]

\* The arguments of self.client.messages.create(...) in
\* AnthropicProvider._make_completion
AnthropicRequest(ms) ==
    LET system_msgs == SystemMsgs(ms)
    IN [status |-> "sent",
        system |-> IF system_msgs # << >> THEN Join(SystemSeparator, system_msgs) ELSE << >>,
        messages |-> UserMsgs(ms)]

Flattened(by) == SelectSeq(prompts, LAMBDA p : p.by = by)

\* A provider of multi_llm_provider.py flattens the conversation.
FlattenBase ==
    /\ Len(Flattened("BaseLLMProvider")) < MaxFlattens
    /\ prompts' = Append(prompts, [by |-> "BaseLLMProvider", text |-> MessagesToPrompt(messages)])
    /\ UNCHANGED <<messages, messages0, request, factoryVars, llm, chainVars, team,
                   roleVars, providerVars, projectVars, contextVars>>

\* ClaudeCodeLLM flattens the conversation.
FlattenLLM ==
    /\ Len(Flattened("ClaudeCodeLLM")) < MaxFlattens
    /\ prompts' = Append(prompts, [by |-> "ClaudeCodeLLM", text |-> LLMMessagesToPrompt(messages)])
    /\ UNCHANGED <<messages, messages0, request, factoryVars, llm, chainVars, team,
                   roleVars, providerVars, projectVars, contextVars>>

\* AnthropicProvider sends the conversation.
AnthropicSend ==
    /\ request.status = "none"
    /\ request' = AnthropicRequest(messages)
    /\ UNCHANGED <<messages, messages0, prompts, factoryVars, llm, chainVars, team,
                   roleVars, providerVars, projectVars, contextVars>>

(***************************************************************************)
(* FastTeam.run_fast_project and the role calls it makes                   *)
(* (src/metagpt/metagpt_multi_llm.py). The roles hold one provider, so     *)
(* their calls go through the executor modelled above.                     *)
(***************************************************************************)
\* The role classes WebAppFastTeam can hire.
TeamRoles == {"ProductManager", "Architect", "FrontendEngineer", "BackendEngineer",
              "QualityAssurance"}

\* The roles run_fast_project looks up in self.roles.
ProjectRoles == {"ProductManager", "Architect", "FrontendEngineer", "QualityAssurance"}

\* The teams modelled: the BackendEngineer, which run_fast_project never
\* looks up, is hired; each of the other roles is hired or not.
Teams == {h \cup {"BackendEngineer"} : h \in SUBSET ProjectRoles}

\* Most role calls of one project that end otherwise than with a clean text
\* (with an error string, an exception or the timeout).
MaxFailures == 3

\* project_description
Descriptions == {"todo app"}

\* steps of _run_optimized_implementation, in the order of the list
Steps == <<"html_structure", "css_styling", "javascript_core", "integration">>

StepInstruction ==
    [html_structure |-> "Create semantic HTML structure for the application. Include all necessary elements and proper accessibility attributes. Keep it clean and focused.",
     css_styling |-> "Create modern CSS styling. Focus on clean design, responsive layout, and good UX. Use modern CSS practices.",
     javascript_core |-> "Create core JavaScript functionality. Focus on main features and clean, working code. Include proper error handling.",
     integration |-> "Create final integrated application combining HTML, CSS, and JavaScript into one working file."]

\* instruction of _run_requirements
RequirementsInstruction(description) ==
    <<"\n        Project: ", description,
      "\n        \n        Define focused requirements:\n        1. Core features (3-5 main features only)\n        2. Key user stories \n        3. Success criteria\n        \n        Be concise and actionable. Max 400 words.\n        ">>

\* instruction of _run_architecture
ArchitectureInstruction(description) ==
    <<"\n        Project: ", description,
      "\n        \n        Provide technical design:\n        1. Technology stack\n        2. File structure\n        3. Component architecture\n        \n        Keep it practical. Max 600 words.\n        ">>

\* full_instruction of _run_optimized_implementation
FullInstruction(description, step_name) ==
    <<"\n            For project: ", description, "\n            \n            ",
      StepInstruction[step_name],
      "\n            \n            Keep response focused and under 800 words.\n            ">>

\* instruction of _run_testing
TestingInstruction(description) ==
    <<"\n        For project: ", description,
      "\n        \n        Design testing approach:\n        1. Core functionality tests\n        2. User acceptance criteria\n        3. Browser compatibility\n        \n        Keep it practical. Max 500 words.\n        ">>

\* An error string of the shared provider.
ErrorReply == [body |-> <<"Claude Code Error: ", "x">>, len |-> 20]

\* What the shared provider hands back in a project: a long clean text or an
\* error string.
ReplyTexts == {[body |-> <<"long answer">>, len |-> 250], ErrorReply}

\* How an awaited provider call ends when its backend call finishes: with a
\* text, or with an exception other than TimeoutError (Outcomes above).
ReplyOutcomes ==
    {[kind |-> "text", text |-> t] : t \in ReplyTexts}
        \cup {[kind |-> "exception", text |-> [body |-> <<"x">>, len |-> 1]]}

\* "No frontend engineer available"
NoFrontendEngineer == [body |-> <<"No frontend engineer available">>, len |-> 30, job |-> 0]

\* f"Error in {step_name}: {str(e)}"
StepError(step_name, e) ==
    [body |-> <<"Error in ", step_name, ": ">> \o e.body,
     len |-> 9 + StepNameLen[step_name] + 2 + e.len,
     job |-> e.job]

\* A dict as the list of its items in insertion order: d[key] = value
DictSet(d, key, value) ==
    IF \E i \in 1..Len(d) : d[i].key = key
    THEN [i \in 1..Len(d) |-> IF d[i].key = key THEN [key |-> key, value |-> value] ELSE d[i]]
    ELSE Append(d, [key |-> key, value |-> value])

\* d.update(other)
RECURSIVE DictUpdate(_, _)
DictUpdate(d, other) ==
    IF other = << >> THEN d
    ELSE DictUpdate(DictSet(d, other[1].key, other[1].value), Tail(other))

\* key in d
Has(d, key) == \E i \in 1..Len(d) : d[i].key = key

\* d[key]
Get(d, key) == d[CHOOSE i \in 1..Len(d) : d[i].key = key].value

NoProjectRun ==
    [pc |-> "none", hired |-> {}, description |-> "", step |-> 0, called |-> {},
     results |-> << >>, impl_results |-> << >>, log |-> << >>]

\* A team that hired some roles, before run_fast_project is called.
NewProject(hired, description) ==
    [NoProjectRun EXCEPT !.pc = "ready", !.hired = hired, !.description = description]

\* History: a role was called for a results key, with the conversation sent.
CallEvent(key, r, instruction, job) ==
    [key |-> key, role |-> r, job |-> job, memory |-> roles[r].memory,
     instruction |-> instruction,
     messages |-> RoleMessages(r, roles[r].memory, instruction)]

\* await self.roles[r].run(instruction), up to the await inside BaseRole.run:
\* the conversation is built, acompletion_text hands the backend call to the
\* provider's executor and wait_for starts its 120 s.
CallRole(key, r, instruction) ==
    /\ jobs' = Append(jobs, NewJob(r, "executor", "queued"))
    /\ roles' = [roles EXCEPT ![r].pc = "awaiting", ![r].job = Len(jobs) + 1]
    /\ project' = [project EXCEPT !.called = @ \cup {r},
                                  !.log = Append(@, CallEvent(key, r, instruction, Len(jobs) + 1))]

\* RunFastProject taking the planning phase when either role is hired.
RunFastProjectEitherHired ==
    /\ project.pc = "ready"
    /\ project' = [project EXCEPT
                       !.pc = IF "ProductManager" \in project.hired \/ "Architect" \in project.hired
                              THEN "planning" ELSE "implementation",
                       !.step = IF "ProductManager" \in project.hired \/ "Architect" \in project.hired
                                THEN 0 ELSE 1]
    /\ UNCHANGED <<roleVars, factoryVars, llm, chainVars, team, providerVars, textVars, contextVars>>

\* run_fast_project is entered: results = {}, and the planning phase is
\* taken when both roles are hired.
RunFastProject ==
    /\ project.pc = "ready"
    /\ project' = [project EXCEPT
                       !.pc = IF "ProductManager" \in project.hired /\ "Architect" \in project.hired
                              THEN "planning" ELSE "implementation",
                       !.step = IF "ProductManager" \in project.hired /\ "Architect" \in project.hired
                                THEN 0 ELSE 1]
    /\ UNCHANGED <<roleVars, factoryVars, llm, chainVars, team, providerVars, textVars, contextVars>>

\* GatherJoin that goes on as soon as one of the two tasks has returned.
GatherJoinFirstCompleted ==
    /\ project.pc = "planning"
    /\ project.called = {"ProductManager", "Architect"}
    /\ \E r \in project.called : roles[r].pc = "returned"
    /\ project' = [project EXCEPT
                       !.pc = "implementation", !.step = 1, !.called = {},
                       !.results = DictSet(DictSet(@, "requirements", roles["ProductManager"].response),
                                           "architecture", roles["Architect"].response)]
    /\ UNCHANGED <<roleVars, factoryVars, llm, chainVars, team, providerVars, textVars, contextVars>>

\* asyncio.gather(pm_task, arch_task): the two coroutines become tasks, which
\* the event loop starts in the order given, and each runs up to the await
\* inside BaseRole.run before the loop looks at anything a backend call
\* delivered: both calls are in the executor, the ProductManager's first.
Gather ==
    /\ project.pc = "planning"
    /\ project.called = {}
    /\ jobs' = jobs \o <<NewJob("ProductManager", "executor", "queued"),
                          NewJob("Architect", "executor", "queued")>>
    /\ roles' = [roles EXCEPT !["ProductManager"].pc = "awaiting",
                              !["ProductManager"].job = Len(jobs) + 1,
                              !["Architect"].pc = "awaiting",
                              !["Architect"].job = Len(jobs) + 2]
    /\ project' = [project EXCEPT
                       !.called = {"ProductManager", "Architect"},
                       !.log = @ \o <<CallEvent("requirements", "ProductManager",
                                                RequirementsInstruction(project.description),
                                                Len(jobs) + 1),
                                      CallEvent("architecture", "Architect",
                                                ArchitectureInstruction(project.description),
                                                Len(jobs) + 2)>>]
    /\ UNCHANGED <<sync, factoryVars, llm, chainVars, team, providerVars, textVars, contextVars>>

\* The state of run_fast_project after _run_optimized_implementation's step
\* `step` has put its entry: the next step, or after the last one
\* results.update(impl_results) and the testing phase if QualityAssurance is
\* hired, else return results.
Advance(p) ==
    IF p.step < Len(Steps)
    THEN [p EXCEPT !.step = @ + 1, !.called = {}]
    ELSE [p EXCEPT !.step = 0, !.called = {},
                   !.results = DictUpdate(@, p.impl_results),
                   !.pc = IF "QualityAssurance" \in p.hired THEN "testing" ELSE "done"]

\* gather returns when both tasks have returned:
\* results["requirements"] = pm_result; results["architecture"] = arch_result
GatherJoin ==
    /\ project.pc = "planning"
    /\ project.called = {"ProductManager", "Architect"}
    /\ \A r \in project.called : roles[r].pc = "returned"
    /\ project' = [project EXCEPT
                       !.pc = "implementation", !.step = 1, !.called = {},
                       !.results = DictSet(DictSet(@, "requirements", roles["ProductManager"].response),
                                           "architecture", roles["Architect"].response)]
    /\ UNCHANGED <<roleVars, factoryVars, llm, chainVars, team, providerVars, textVars, contextVars>>

\* gather passes the first exception of a task on to run_fast_project, which
\* has no handler: the exception leaves it. The other task goes on.
GatherRaise ==
    /\ project.pc = "planning"
    /\ \E r \in project.called : roles[r].pc = "raised"
    /\ project' = [project EXCEPT !.pc = "raised"]
    /\ UNCHANGED <<roleVars, factoryVars, llm, chainVars, team, providerVars, textVars, contextVars>>

\* A step of the implementation loop begins: the FrontendEngineer is called,
\* or without one the step's entry is "No frontend engineer available".
StepStart ==
    /\ project.pc = "implementation"
    /\ project.called = {}
    /\ IF "FrontendEngineer" \in project.hired
       THEN /\ CallRole(Steps[project.step], "FrontendEngineer",
                        FullInstruction(project.description, Steps[project.step]))
            /\ UNCHANGED sync
       ELSE /\ project' = Advance([project EXCEPT
                              !.impl_results = DictSet(@, Steps[project.step], NoFrontendEngineer)])
            /\ UNCHANGED roleVars
    /\ UNCHANGED <<factoryVars, llm, chainVars, team, providerVars, textVars, contextVars>>

\* result = await ....run(full_instruction); impl_results[step_name] = result
StepReturn ==
    /\ project.pc = "implementation"
    /\ project.called = {"FrontendEngineer"}
    /\ roles["FrontendEngineer"].pc = "returned"
    /\ project' = Advance([project EXCEPT
                      !.impl_results = DictSet(@, Steps[project.step],
                                               roles["FrontendEngineer"].response)])
    /\ UNCHANGED <<roleVars, factoryVars, llm, chainVars, team, providerVars, textVars, contextVars>>

\* The loop without its try/except: the exception of a step leaves
\* _run_optimized_implementation and run_fast_project.
StepRaisePropagates ==
    /\ project.pc = "implementation"
    /\ project.called = {"FrontendEngineer"}
    /\ roles["FrontendEngineer"].pc = "raised"
    /\ project' = [project EXCEPT !.pc = "raised"]
    /\ UNCHANGED <<roleVars, factoryVars, llm, chainVars, team, providerVars, textVars, contextVars>>

\* except Exception as e: impl_results[step_name] = f"Error in {step_name}: {str(e)}"
StepRaise ==
    /\ project.pc = "implementation"
    /\ project.called = {"FrontendEngineer"}
    /\ roles["FrontendEngineer"].pc = "raised"
    /\ project' = Advance([project EXCEPT
                      !.impl_results = DictSet(@, Steps[project.step],
                                               StepError(Steps[project.step],
                                                         roles["FrontendEngineer"].response))])
    /\ UNCHANGED <<roleVars, factoryVars, llm, chainVars, team, providerVars, textVars, contextVars>>

\* qa_result = await self._run_testing(project_description), up to the await
TestingCall ==
    /\ project.pc = "testing"
    /\ project.called = {}
    /\ CallRole("testing", "QualityAssurance", TestingInstruction(project.description))
    /\ UNCHANGED <<sync, factoryVars, llm, chainVars, team, providerVars, textVars, contextVars>>

\* results["testing"] = qa_result; return results
TestingReturn ==
    /\ project.pc = "testing"
    /\ project.called = {"QualityAssurance"}
    /\ roles["QualityAssurance"].pc = "returned"
    /\ project' = [project EXCEPT !.pc = "done", !.called = {},
                                  !.results = DictSet(@, "testing", roles["QualityAssurance"].response)]
    /\ UNCHANGED <<roleVars, factoryVars, llm, chainVars, team, providerVars, textVars, contextVars>>

\* An exception of the QualityAssurance run leaves run_fast_project.
TestingRaise ==
    /\ project.pc = "testing"
    /\ project.called = {"QualityAssurance"}
    /\ roles["QualityAssurance"].pc = "raised"
    /\ project' = [project EXCEPT !.pc = "raised"]
    /\ UNCHANGED <<roleVars, factoryVars, llm, chainVars, team, providerVars, textVars, contextVars>>

\* The role calls of the project that did not end with a clean text.
Failures ==
    {j \in 1..Len(jobs) :
        \/ jobs[j].expired # "no"
        \/ jobs[j].future = "exception"
        \/ jobs[j].result.body = ErrorReply.body}

\* The backend call the worker runs finishes, and the awaited provider call
\* ends with it. A text resumes BaseRole.run, which returns it; an exception
\* has no handler in BaseRole.run and leaves it (the role keeps its str()).
\* A future that was cancelled takes neither.
ProviderReplies ==
    /\ \E j \in PoolRunning, o \in ReplyOutcomes :
         LET text == o.text @@ [job |-> j]
             r == jobs[j].caller
             pending == jobs[j].future = "pending"
         IN /\ (pending /\ (o.kind = "exception" \/ o.text = ErrorReply))
                    => Cardinality(Failures) < MaxFailures
            /\ jobs' = [jobs EXCEPT ![j].state = "done",
                                    ![j].result = IF pending /\ o.kind = "text" THEN text ELSE NoText,
                                    ![j].future = IF pending
                                                  THEN (IF o.kind = "text" THEN "done" ELSE "exception")
                                                  ELSE @]
            /\ roles' = IF ~pending THEN roles
                        ELSE IF o.kind = "text" THEN [roles EXCEPT ![r] = RoleReturn(r, text)]
                        ELSE [roles EXCEPT ![r].pc = "raised", ![r].response = text]
    /\ UNCHANGED <<sync, factoryVars, llm, chainVars, team, providerVars, textVars,
                   projectVars, contextVars>>

\* The wait of a hired role runs out.
RoleTimeout(r) ==
    /\ r \in project.hired
    /\ Cardinality(Failures) < MaxFailures
    /\ Timeout(r)

(***************************************************************************)
(* ContextAwareClaudeCodeLLM (src/metagpt/claude_code_llm.py): what a call *)
(* hands to subprocess.run; what the subprocess then does is modelled with *)
(* ClaudeCodeLLMRun above. A text is here the list of its pieces.          *)
(***************************************************************************)
\* Most calls of the context-aware LLM in one behaviour.
MaxContextCalls == 2

\* self.project_path
ProjectPath == "/work/app"

\* common_files of _get_project_context, in the order of the list
CommonFiles == <<"README.md", "package.json", "requirements.txt", "pom.xml",
                 "Cargo.toml", ".env", "CLAUDE.md">>

\* The files of that list a project directory may hold.
FoundSets == {{}, {"README.md"}, {"package.json", ".env"}, {"README.md", "CLAUDE.md"}}

\* The project path does not exist.
NoFs == [exists |-> FALSE, files |-> {}]

\* What the file system can show of the project path.
FileSystems == {NoFs} \cup {[exists |-> TRUE, files |-> f] : f \in FoundSets}

\* The flattened prompts a call is made with.
ContextPrompts == {<<"User: a">>, <<"System: b", "\n\n", "User: a">>}

\* The two public forms of a call.
Forms == {"completion_text", "acompletion_text"}

\* found_files: the files of common_files that exist under the project path
RECURSIVE FoundFiles(_, _)
FoundFiles(files, present) ==
    IF files = << >> THEN << >>
    ELSE (IF Head(files) \in present THEN <<Head(files)>> ELSE << >>)
             \o FoundFiles(Tail(files), present)

\* The elements of a list as one-piece texts.
Pieces(list) == [i \in 1..Len(list) |-> <<list[i]>>]

\* ContextAwareClaudeCodeLLM._get_project_context
GetProjectContext(f) ==
    IF ~f.exists THEN << >>
    ELSE LET found_files == FoundFiles(CommonFiles, f.files)
             context_parts ==
                 <<<<"Project Path: ", ProjectPath>>>>
                     \o (IF found_files # << >>
                         THEN <<<<"Key files present: ">> \o Join(<<", ">>, Pieces(found_files))>>
                         ELSE << >>)
         IN Join(<<"\n">>, context_parts)

\* enhanced_prompt
EnhancedPrompt(context, prompt) ==
    <<"\nProject Context:\n">> \o context \o <<"\n\nTask:\n">> \o prompt
        \o <<"\n\nPlease provide a response considering the project context above.\n">>

\* ClaudeCodeLLM._run_claude_command, the arguments of subprocess.run:
\* cmd = ['claude', '--print', prompt], cwd=self.project_path if use_context else None
BaseRunArguments(prompt, use_context) ==
    [prompt |-> prompt, cwd |-> IF use_context THEN ProjectPath ELSE "None"]

\* ContextAwareClaudeCodeLLM._run_claude_command that keeps the working
\* directory when it wraps the prompt.
RunArgumentsKeepCwd(prompt, use_context, f) ==
    LET context == GetProjectContext(f)
    IN IF use_context /\ context # << >>
       THEN BaseRunArguments(EnhancedPrompt(context, prompt), TRUE)
       ELSE BaseRunArguments(prompt, use_context)

\* ContextAwareClaudeCodeLLM._run_claude_command
RunArguments(prompt, use_context, f) ==
    LET context == GetProjectContext(f)
    IN IF use_context /\ context # << >>
       THEN BaseRunArguments(EnhancedPrompt(context, prompt), FALSE)
       ELSE BaseRunArguments(prompt, use_context)

\* A call of either form: completion_text calls
\* self._run_claude_command(prompt), acompletion_text hands
\* (self._run_claude_command, prompt, True) to the executor.
ContextCall ==
    /\ Len(invocations) < MaxContextCalls
    /\ \E form \in Forms, prompt \in ContextPrompts :
         LET args == RunArguments(prompt, TRUE, fs)
         IN invocations' = Append(invocations,
                                  [form |-> form, given |-> prompt, exists |-> fs.exists,
                                   prompt |-> args.prompt, cwd |-> args.cwd])
    /\ UNCHANGED <<fs, factoryVars, llm, chainVars, team, roleVars, providerVars, textVars,
                   projectVars>>

\* The project directory is created, removed, or its files change.
FsChange ==
    /\ \E f \in FileSystems \ {fs} : fs' = f
    /\ UNCHANGED <<invocations, factoryVars, llm, chainVars, team, roleVars, providerVars,
                   textVars, projectVars>>

(***************************************************************************)
(* Specifications                                                          *)
(***************************************************************************)
\* No factory call and no provider call was made.
NoFactory ==
    /\ prefer_api = TRUE
    /\ bestPc = "idle"
    /\ bestProviders = << >>
    /\ probeLog = << >>
    /\ bestRet = NotCalled
    /\ fastRet = NotCalled
    /\ freeRet = NotCalled
    /\ llm = NoProvider
    /\ chainPc = "idle"
    /\ idx = 1
    /\ calls = << >>
    /\ blocking = NotCalledBlocking
    /\ result = NoResult
    /\ team = NoTeam

\* No role ran and no backend call was issued.
NoRoles ==
    /\ jobs = << >>
    /\ roles = [r \in Roles |-> NewRole]
    /\ sync = [c \in SyncCallers |-> [pc |-> "idle", job |-> 0, response |-> NoText]]

\* No provider was constructed directly.
NoProviderMade ==
    /\ made = NotMade
    /\ reply = NoReply

\* No team runs a project.
NoProject == project = NoProjectRun

\* No context-aware LLM was called.
NoContext ==
    /\ fs = NoFs
    /\ invocations = << >>

\* No conversation was flattened or sent.
NoConversation ==
    /\ messages = << >>
    /\ messages0 = << >>
    /\ prompts = << >>
    /\ request = NoRequest

\* The lists of up to MaxChain providers, no provider twice.
ChainLists ==
    {ps \in UNION {[1..n -> ProviderNames] : n \in 0..MaxChain} :
        \A i, j \in 1..Len(ps) : i # j => ps[i] # ps[j]}

\* A caller holds a FallbackProvider built from some list of providers.
InitChain ==
    /\ env = DefaultEnv
    /\ prefer_api = TRUE
    /\ bestPc = "idle"
    /\ bestProviders = << >>
    /\ probeLog = << >>
    /\ bestRet = NotCalled
    /\ fastRet = NotCalled
    /\ freeRet = NotCalled
    /\ llm \in {FallbackProvider(ps) : ps \in ChainLists}
    /\ chainPc = "idle"
    /\ idx = 1
    /\ calls = << >>
    /\ blocking = NotCalledBlocking
    /\ result = NoResult
    /\ team = NoTeam
    /\ NoRoles
    /\ NoProviderMade
    /\ NoProject
    /\ NoContext
    /\ NoConversation

NextChain == ChainStart \/ ChainStep

Spec == InitChain /\ [][NextChain]_vars

\* A caller holds a chain or a concrete provider and uses both forms.
InitForms ==
    /\ env = DefaultEnv
    /\ prefer_api = TRUE
    /\ bestPc = "idle"
    /\ bestProviders = << >>
    /\ probeLog = << >>
    /\ bestRet = NotCalled
    /\ fastRet = NotCalled
    /\ freeRet = NotCalled
    /\ llm \in {FallbackProvider(ps) : ps \in ChainLists} \cup {Provider(n) : n \in ProviderNames}
    /\ chainPc = "idle"
    /\ idx = 1
    /\ calls = << >>
    /\ blocking = NotCalledBlocking
    /\ result = NoResult
    /\ team = NoTeam
    /\ NoRoles
    /\ NoProviderMade
    /\ NoProject
    /\ NoContext
    /\ NoConversation

NextForms == ChainStart \/ ChainStep \/ DirectCall \/ CompletionTextCall

SpecForms == InitForms /\ [][NextForms]_vars

\* A process in some environment, before any factory call.
InitFactory ==
    /\ env \in Envs
    /\ prefer_api = TRUE
    /\ bestPc = "idle"
    /\ bestProviders = << >>
    /\ probeLog = << >>
    /\ bestRet = NotCalled
    /\ fastRet = NotCalled
    /\ freeRet = NotCalled
    /\ llm = NoProvider
    /\ chainPc = "idle"
    /\ idx = 1
    /\ calls = << >>
    /\ blocking = NotCalledBlocking
    /\ result = NoResult
    /\ team = NoTeam
    /\ NoRoles
    /\ NoProviderMade
    /\ NoProject
    /\ NoContext
    /\ NoConversation

NextFactory ==
    \/ BestStart
    \/ TryOpenAI
    \/ TryAnthropic
    \/ TryOllama
    \/ AddClaudeCode
    \/ BestReturn
    \/ CreateFast
    \/ CreateFree
    \/ ChainStart
    \/ ChainStep
    \/ DirectCall

SpecFactory == InitFactory /\ [][NextFactory]_vars

\* A process in some environment that constructs a FastTeam, or asks the
\* fast or the free policy itself, and lets the team's roles call.
NextTeam ==
    \/ CreateFast
    \/ CreateFree
    \/ FastTeamInit
    \/ DirectCall

SpecTeam == InitFactory /\ [][NextTeam]_vars

\* Two roles and a thread share one provider; nothing has been called.
InitRole ==
    /\ env = DefaultEnv
    /\ NoFactory
    /\ NoRoles
    /\ NoProviderMade
    /\ NoProject
    /\ NoContext
    /\ NoConversation

NextRole ==
    \/ \E r \in Roles : RoleRun(r)
    \/ WorkerStart
    \/ WorkerFinish
    \/ \E r \in Roles : Timeout(r)
    \/ \E c \in SyncCallers : SyncCall(c)
    \/ \E c \in SyncCallers : SyncFinish(c)

SpecRole == InitRole /\ [][NextRole]_vars

\* The event loop runs the timer callback of wait_for when its 120 s are
\* over; nothing makes a backend call finish.
SpecRoleFair == SpecRole /\ \A r \in Roles : WF_vars(Timeout(r))

\* The environments as far as a constructor reads them.
ConstructorEnvs == {e \in Envs : e.endpoint = "refused" /\ e.requests_lib}

\* A team that hired some of the roles, all with the one provider of the
\* team, and is asked to run a project.
InitProject ==
    /\ env = DefaultEnv
    /\ NoFactory
    /\ jobs = << >>
    /\ sync = [c \in SyncCallers |-> [pc |-> "idle", job |-> 0, response |-> NoText]]
    /\ NoProviderMade
    /\ NoContext
    /\ NoConversation
    /\ \E hired \in Teams, description \in Descriptions :
         /\ project = NewProject(hired, description)
         /\ roles = [r \in hired |-> NewRole]

NextProject ==
    \/ RunFastProject
    \/ Gather
    \/ GatherJoin
    \/ GatherRaise
    \/ StepStart
    \/ StepReturn
    \/ StepRaise
    \/ TestingCall
    \/ TestingReturn
    \/ TestingRaise
    \/ WorkerStart
    \/ ProviderReplies
    \/ \E r \in TeamRoles : RoleTimeout(r)

SpecProject == InitProject /\ [][NextProject]_vars

\* The event loop runs every coroutine that can go on, and the executor's
\* worker takes the next queued call when it is free. Every backend call has
\* a timeout of its own (subprocess.run(..., timeout=self.timeout),
\* requests.post(..., timeout=120)), so a call that runs also finishes.
SpecProjectFair ==
    /\ SpecProject
    /\ WF_vars(RunFastProject)
    /\ WF_vars(Gather)
    /\ WF_vars(GatherJoin)
    /\ WF_vars(GatherRaise)
    /\ WF_vars(StepStart)
    /\ WF_vars(StepReturn)
    /\ WF_vars(StepRaise)
    /\ WF_vars(TestingCall)
    /\ WF_vars(TestingReturn)
    /\ WF_vars(TestingRaise)
    /\ WF_vars(WorkerStart)
    /\ WF_vars(ProviderReplies)

\* A context-aware LLM with a project path, before any call.
InitContext ==
    /\ env = DefaultEnv
    /\ NoFactory
    /\ NoRoles
    /\ NoProviderMade
    /\ NoProject
    /\ NoConversation
    /\ fs \in FileSystems
    /\ invocations = << >>

NextContext == ContextCall \/ FsChange

SpecContext == InitContext /\ [][NextContext]_vars

\* A process in some environment constructs one provider and calls it.
InitProvider ==
    /\ env \in ConstructorEnvs
    /\ NoFactory
    /\ NoRoles
    /\ NoProviderMade
    /\ NoProject
    /\ NoContext
    /\ NoConversation

NextProvider == NewProvider \/ CallProvider

SpecProvider == InitProvider /\ [][NextProvider]_vars

\* A caller holds some conversation.
InitText ==
    /\ env = DefaultEnv
    /\ NoFactory
    /\ NoRoles
    /\ NoProviderMade
    /\ NoProject
    /\ NoContext
    /\ messages \in Conversations
    /\ messages0 = messages
    /\ prompts = << >>
    /\ request = NoRequest

NextText == FlattenBase \/ FlattenLLM \/ AnthropicSend

SpecText == InitText /\ [][NextText]_vars

(***************************************************************************)
(* Properties of the fallback chain (specification Spec)                   *)
(***************************************************************************)
\* The error-indicator test in the words of the specification: the
\* lower-cased text contains 'error:', 'timeout', 'failed' or 'exception'.
ContainsIndicator(t) ==
    LET low == Lower(t)
    IN \/ Contains(low, <<"e", "r", "r", "o", "r", ":">>)
       \/ Contains(low, <<"t", "i", "m", "e", "o", "u", "t">>)
       \/ Contains(low, <<"f", "a", "i", "l", "e", "d">>)
       \/ Contains(low, <<"e", "x", "c", "e", "p", "t", "i", "o", "n">>)

CallClean(c) == c.out.kind = "text" /\ ~ContainsIndicator(c.out.text)

CallErrorText(c) == c.out.kind = "text" /\ ContainsIndicator(c.out.text)

CallRaised(c) == c.out.kind = "raise"

\* '[name] text' for the k-th call of the log
TaggedResponse(k) ==
    <<"[">> \o NameText(llm.providers[k]) \o <<"]", " ">> \o calls[k].out.text

\* The chain has gone on from its k-th provider: the next one is awaited or
\* was called, or, after the last one, the sentinel was returned.
MovedPast(k) ==
    IF k < Len(llm.providers)
    THEN \/ chainPc = "awaiting" /\ idx = k + 1 /\ Len(calls) = k
         \/ Len(calls) > k /\ calls[k + 1].idx = k + 1
    ELSE chainPc = "done" /\ Len(calls) = k /\ result = Returned(AllProvidersFailed)

\* C1: when providers 1..k-1 returned error-indicator strings and provider k
\* returned a clean string, the call is over, its result is provider k's
\* string tagged '[name] text' with provider k's name, and the providers
\* invoked are exactly 1..k, in chain order, each once (k+1..N never).
C1_FirstCleanProviderWins ==
    \A k \in 1..Len(calls) :
        (CallClean(calls[k]) /\ \A j \in 1..(k - 1) : CallErrorText(calls[j]))
            => /\ chainPc = "done"
               /\ result = Returned(TaggedResponse(k))
               /\ Len(calls) = k
               /\ \A j \in 1..k : calls[j].idx = j /\ calls[j].name = llm.providers[j]

C1_Witness ==
    /\ chainPc = "done"
    /\ Len(llm.providers) = 3
    /\ llm.providers[1] # llm.providers[2]
    /\ Len(calls) = 2
    /\ CallErrorText(calls[1])
    /\ CallClean(calls[2])
    /\ result = Returned(TaggedResponse(2))

\* C2: a call in which every provider returned an error-indicator string or
\* raised ends, after all N providers were invoked, with the sentinel
\* 'All providers failed' as its return value; no call ends by raising.
C2_ExhaustionReturnsSentinel ==
    /\ result.status # "raised"
    /\ (chainPc = "done" /\ \A j \in 1..Len(calls) : CallErrorText(calls[j]) \/ CallRaised(calls[j]))
           => /\ Len(calls) = Len(llm.providers)
              /\ result = Returned(<<"A", "l", "l", " ", "p", "r", "o", "v", "i", "d", "e", "r", "s", " ", "f", "a", "i", "l", "e", "d">>)

C2_Witness ==
    /\ chainPc = "done"
    /\ Len(llm.providers) = 3
    /\ Len(calls) = 3
    /\ CallRaised(calls[1])
    /\ CallErrorText(calls[2])
    /\ CallRaised(calls[3])
    /\ result.status = "returned"

\* C3: after a provider raised, the chain has gone on to the next provider
\* (or, after the last one, returned the sentinel), and when that next
\* provider returned a clean string the call returned normally with that
\* provider's tagged response.
C3_RaiseMovesToNextProvider ==
    \A k \in 1..Len(calls) :
        CallRaised(calls[k])
            => /\ MovedPast(k)
               /\ (Len(calls) > k /\ CallClean(calls[k + 1]))
                      => /\ chainPc = "done"
                         /\ Len(calls) = k + 1
                         /\ result = Returned(TaggedResponse(k + 1))

C3_Witness ==
    /\ chainPc = "done"
    /\ Len(llm.providers) >= 2
    /\ Len(calls) = 2
    /\ CallRaised(calls[1])
    /\ CallClean(calls[2])
    /\ result = Returned(TaggedResponse(2))

\* C4: a response text is treated as a failure (the chain goes on to the next
\* provider, or to the sentinel after the last) exactly when its lower-cased
\* form contains an error indicator; otherwise it is returned, tagged.
C4_FailureIffIndicator ==
    \A k \in 1..Len(calls) :
        calls[k].out.kind = "text"
            => IF ContainsIndicator(calls[k].out.text)
               THEN MovedPast(k)
               ELSE /\ chainPc = "done"
                    /\ Len(calls) = k
                    /\ result = Returned(TaggedResponse(k))

\* a legitimate completion that merely mentions an exception is rejected, and
\* an upper-case FAILED too; the next provider is tried each time
C4_Witness ==
    /\ Len(calls) = 3
    /\ calls[1].out.text = <<"c", "a", "t", "c", "h", " ", "t", "h", "e", " ", "E", "x", "c", "e", "p", "t", "i", "o", "n">>
    /\ calls[2].out.text = <<"B", "u", "i", "l", "d", " ", "F", "A", "I", "L", "E", "D">>
    /\ calls[3].out.text = <<"E", "r", "r", "o", "r", " ", "h", "a", "n", "d", "l", "i", "n", "g">>
    /\ result = Returned(TaggedResponse(3))

(***************************************************************************)
(* Properties of the selection policies (specification SpecFactory)        *)
(***************************************************************************)
\* Priority: OpenAI > Anthropic > Ollama > Claude Code
Rank(name) ==
    CASE name = "OpenAI" -> 1
      [] name = "Anthropic" -> 2
      [] name = "Ollama" -> 3
      [] name = "ClaudeCode" -> 4
      [] OTHER -> 0

\* ps is a subsequence of [OpenAI, Anthropic, Ollama, ClaudeCode]
InPriorityOrder(ps) ==
    /\ \A i \in 1..Len(ps) : Rank(ps[i]) >= 1
    /\ \A i, j \in 1..Len(ps) : i < j => Rank(ps[i]) < Rank(ps[j])

\* an exception raised while a candidate was constructed (for Ollama, the
\* missing requests package shows when the block imports it)
ConstructionRaised(entry) ==
    entry.outcome \in {"ValueError", "ImportError", "FileNotFoundError"}

C6_SingleProviderUnwrapped ==
    bestPc = "done"
        => /\ Len(bestProviders) = 1
                  => /\ bestRet.status = "returned"
                     /\ bestRet.provider = [name |-> bestProviders[1], providers |-> << >>]
                     /\ llm = bestRet.provider
           /\ (bestRet.provider.name = "Fallback") <=> (Len(bestProviders) >= 2)
           /\ (Len(bestProviders) = 1 /\ chainPc = "done" /\ calls[1].out.kind = "text")
                  => result = Returned(calls[1].out.text)

C6_Witness ==
    /\ bestPc = "done"
    /\ prefer_api
    /\ bestProviders = <<"ClaudeCode">>
    /\ chainPc = "done"
    /\ calls[1].out.text = <<"h", "e", "l", "l", "o">>
    /\ result = Returned(<<"h", "e", "l", "l", "o">>)

\* The providers called so far are the first ones of the candidate list, in
\* its order.
ChainFollowsCandidates ==
    llm.name = "Fallback"
        => /\ llm.providers = bestProviders
           /\ \A j \in 1..Len(calls) : calls[j].idx = j /\ calls[j].name = bestProviders[j]

\* C7 as stated: the candidate list is a subsequence of [OpenAI, Anthropic,
\* Ollama, ClaudeCode], ClaudeCode is always its last element, and a chain
\* built from it tries the providers in that order.
C7_ClaudeCodeAlwaysLast ==
    /\ InPriorityOrder(bestProviders)
    /\ bestPc \in {"select", "done"}
           => /\ bestProviders # << >>
              /\ bestProviders[Len(bestProviders)] = "ClaudeCode"
    /\ ChainFollowsCandidates

\* C7, amended: the candidate list is a subsequence of [OpenAI, Anthropic,
\* Ollama, ClaudeCode] at every point of the call; once the ClaudeCode block
\* has run, ClaudeCode is the last element if its construction succeeded and
\* is not in the list if its construction raised; a chain built from the list
\* tries the providers in the list's order.
C7_OrderedClaudeCodeLastIfBuilt ==
    /\ InPriorityOrder(bestProviders)
    /\ bestPc \in {"select", "done"}
           => IF ClaudeCodeProviderInit("None", env).exc = "none"
              THEN /\ bestProviders # << >>
                   /\ bestProviders[Len(bestProviders)] = "ClaudeCode"
              ELSE \A i \in 1..Len(bestProviders) : bestProviders[i] # "ClaudeCode"
    /\ ChainFollowsCandidates

C7_Witness ==
    /\ bestPc = "done"
    /\ bestProviders = <<"OpenAI", "Ollama", "ClaudeCode">>
    /\ llm.name = "Fallback"
    /\ chainPc = "done"
    /\ Len(calls) = 3
    /\ calls[3].name = "ClaudeCode"

\* C8: a candidate whose construction raised is not in the list and left the
\* list as it was; each block starts from the list the block before it left,
\* and only ever appends; all four candidates are probed whatever raised.
C8_RaisingCandidateSkipped ==
    /\ \A i \in 1..Len(probeLog) :
          /\ ConstructionRaised(probeLog[i])
                 => /\ probeLog[i].after = probeLog[i].before
                    /\ \A j \in 1..Len(bestProviders) : bestProviders[j] # probeLog[i].cand
          /\ probeLog[i].before = (IF i = 1 THEN << >> ELSE probeLog[i - 1].after)
          /\ Len(probeLog[i].after) >= Len(probeLog[i].before)
          /\ SubSeq(probeLog[i].after, 1, Len(probeLog[i].before)) = probeLog[i].before
          /\ SubSeq(bestProviders, 1, Len(probeLog[i].after)) = probeLog[i].after
    /\ (bestPc \in {"select", "done"} /\ prefer_api)
           => [i \in 1..Len(probeLog) |-> probeLog[i].cand]
                  = <<"OpenAI", "Anthropic", "Ollama", "ClaudeCode">>

C8_Witness ==
    /\ bestPc = "done"
    /\ Len(probeLog) = 4
    /\ probeLog[1].outcome = "none"
    /\ ConstructionRaised(probeLog[2])
    /\ probeLog[3].outcome = "none"
    /\ probeLog[4].outcome = "none"
    /\ bestProviders = <<"OpenAI", "Ollama", "ClaudeCode">>

\* C9 as stated: none of the three policies ever raises.
C9_PoliciesNeverRaise ==
    /\ bestRet.status # "raised"
    /\ fastRet.status # "raised"
    /\ freeRet.status # "raised"

\* C9, amended: whenever ClaudeCodeProvider can be constructed, each policy
\* returns a provider, whatever the credentials, the probe and the other
\* constructors do. A policy raises only when ClaudeCodeProvider's constructor
\* raises and nothing else was selected: create_best_available then raises
\* RuntimeError on its empty list, the other two let the constructor's
\* exception through.
C9_RaiseOnlyWithoutSubprocessBackend ==
    /\ bestPc = "done" => bestRet.status \in {"returned", "raised"}
    /\ bestRet.status = "returned" => bestRet.provider.name \in ProviderNames \cup {"Fallback"}
    /\ fastRet.status = "returned" => fastRet.provider.name \in ProviderNames
    /\ freeRet.status = "returned" => freeRet.provider.name \in ProviderNames
    /\ bestRet.status = "raised"
           => /\ bestRet.exc = "RuntimeError"
              /\ bestProviders = << >>
              /\ ClaudeCodeProviderInit("None", env).exc # "none"
    /\ fastRet.status = "raised"
           => /\ fastRet.exc = ClaudeCodeProviderInit("None", env).exc
              /\ fastRet.exc # "none"
    /\ freeRet.status = "raised"
           => /\ freeRet.exc = ClaudeCodeProviderInit("None", env).exc
              /\ freeRet.exc # "none"

\* nothing but the subprocess backend is usable (a credential is set but the
\* vendor's package is missing, the endpoint refuses), and all three policies
\* return it
C9_Witness ==
    /\ Truthy(env.OPENAI_API_KEY)
    /\ ~env.openai_lib
    /\ env.requests_lib
    /\ env.endpoint = "refused"
    /\ bestPc = "done"
    /\ prefer_api
    /\ bestRet = ReturnedProvider(Provider("ClaudeCode"))
    /\ fastRet = ReturnedProvider(Provider("ClaudeCode"))
    /\ freeRet = ReturnedProvider(Provider("ClaudeCode"))

\* C10: in every environment the provider create_fast_provider returns is of
\* the kind of the first candidate create_best_available (prefer_api=True)
\* collects, and is never a fallback chain.
C10_FastIsFirstCandidate ==
    (bestPc = "done" /\ prefer_api /\ bestProviders # << >> /\ fastRet.status = "returned")
        => /\ fastRet.provider.name = bestProviders[1]
           /\ fastRet.provider.name # "Fallback"

(***************************************************************************)
(* Properties of the free policy and of FastTeam (specification SpecTeam)  *)
(***************************************************************************)
\* The backends that are no paid hosted API: the local-network backend and
\* the subprocess backend.
FreeBackends == {"Ollama", "ClaudeCode"}

\* C11: create_free_provider returns the local-network or the subprocess
\* backend in every environment, also when both API keys are set, and a
\* FastTeam built with prefer_api = False holds such a provider and makes
\* no call on a hosted API provider.
C11_FreeNeverUsesHostedApi ==
    /\ freeRet.status = "returned" => freeRet.provider.name \in FreeBackends
    /\ team.status = "returned" /\ ~team.prefer_api =>
          /\ team.llm.name \in FreeBackends
          /\ llm = team.llm
          /\ \A i \in 1..Len(calls) : calls[i].name \in FreeBackends

\* Both keys are set and both vendor libraries are there; the free policy
\* has returned, and a role of a FastTeam built with prefer_api = False has
\* made its call.
C11_Witness ==
    /\ Truthy(env.OPENAI_API_KEY) /\ Truthy(env.ANTHROPIC_API_KEY)
    /\ env.openai_lib /\ env.anthropic_lib
    /\ freeRet.status = "returned"
    /\ team.status = "returned" /\ ~team.prefer_api
    /\ chainPc = "done"
    /\ Len(calls) = 1

(***************************************************************************)
(* Properties of the roles and of the executor they share (specifications  *)
(* SpecRole and, for what must eventually happen, SpecRoleFair)            *)
(***************************************************************************)
\* The backend calls handed to the pool, in the order they were issued.
Pooled == {j \in 1..Len(jobs) : jobs[j].via = "executor"}

\* C12 as stated: whatever the callers do, at most one blocking backend
\* call of the provider is in flight.
C12_OneCallInFlight ==
    Cardinality({j \in 1..Len(jobs) : jobs[j].state = "running"}) <= 1

\* C12: of the calls made through the non-blocking form, which go to the
\* pool, at most one is in flight, and one issued later has started only if
\* every one issued earlier has finished or was cancelled before it started.
C12_OnePooledCallInFlight ==
    /\ Cardinality({j \in Pooled : jobs[j].state = "running"}) <= 1
    /\ \A i, j \in Pooled :
          i < j /\ jobs[j].state \in {"running", "done"}
              => jobs[i].state \in {"done", "skipped"}

\* A pooled call is in flight, a later pooled call waits in the queue
\* behind it, and a call of the blocking form is in flight at the same time.
C12_Witness ==
    /\ \E i, j \in Pooled :
          i < j /\ jobs[i].state = "running" /\ jobs[j].state = "queued"
    /\ \E k \in 1..Len(jobs) : jobs[k].via = "direct" /\ jobs[k].state = "running"

\* C13: a role that awaits its provider call eventually returns to its
\* caller, with the timeout sentinel as its response when the call has not
\* completed, and no exception ever leaves BaseRole.run.
C13_TimedOutRunReturnsSentinel ==
    /\ [](\A r \in Roles : roles[r].pc # "raised")
    /\ \A r \in Roles :
          (roles[r].pc = "awaiting")
              ~> /\ roles[r].pc = "returned"
                 /\ jobs[roles[r].job].state # "done"
                       => roles[r].response = TimeoutSentinel(r)

\* A role has returned the sentinel while its backend call is still running.
C13_Witness ==
    \E r \in Roles :
        /\ roles[r].pc = "returned"
        /\ roles[r].response.body
              = <<"Task timed out for ", r, ". Consider breaking into smaller steps.">>
        /\ jobs[roles[r].job].state = "running"

\* C14: the result of a backend call that was running when its caller's
\* wait expired is no role's response, no entry of any role's memory and no
\* response of a caller of the blocking form.
C14_LateResultDiscarded ==
    \A j \in 1..Len(jobs) :
        jobs[j].expired = "running" =>
            /\ \A r \in Roles :
                  /\ roles[r].response.job # j
                  /\ \A k \in 1..Len(roles[r].memory) : roles[r].memory[k].job # j
            /\ \A c \in SyncCallers : sync[c].response.job # j

\* A call that was running when the wait expired has finished in the
\* background, and a later call of a role has returned its own result.
C14_Witness ==
    \E j \in 1..Len(jobs), r \in Roles :
        /\ jobs[j].expired = "running"
        /\ jobs[j].state = "done"
        /\ roles[r].job > j
        /\ roles[r].pc = "returned"
        /\ roles[r].response.job = roles[r].job

(***************************************************************************)
(* Properties of a single provider (specification SpecProvider)            *)
(***************************************************************************)
HostedClasses == {"OpenAI", "Anthropic"}

\* os.getenv of the vendor's variable
VendorVariable(class) ==
    IF class = "OpenAI" THEN env.OPENAI_API_KEY ELSE env.ANTHROPIC_API_KEY

\* No credential: the value is None or the empty string.
Absent(v) == v \in {"None", ""}

\* C15: constructing OpenAIProvider or AnthropicProvider raises the
\* configuration error (ValueError) whenever neither the explicit argument
\* nor the vendor's environment variable holds a credential, and an object
\* constructed with an explicit credential holds that credential, whatever
\* the environment variable says.
C15_CredentialRequiredArgumentFirst ==
    made.class \in HostedClasses =>
        /\ Absent(made.arg) /\ Absent(VendorVariable(made.class)) => made.exc = "ValueError"
        /\ ~Absent(made.arg) => made.exc # "ValueError"
        /\ ~Absent(made.arg) /\ made.exc = "none" => made.api_key = made.arg

\* A hosted-API provider was constructed with an explicit credential while
\* the environment variable held another one, and holds the explicit one.
C15_Witness ==
    /\ made.class \in HostedClasses
    /\ made.arg = "sk-arg"
    /\ VendorVariable(made.class) = "sk-test"
    /\ made.exc = "none"
    /\ made.api_key = "sk-arg"

BackendFailed(o) ==
    \/ o.kind = "exit" /\ o.returncode # 0
    \/ o.kind = "response" /\ o.status_code # 200
    \/ o.kind \in {"TimeoutExpired", "FileNotFoundError", "Exception"}

\* C17 as stated: every provider hands back a failed backend call as a
\* text that the chain's error-indicator test classifies as a failure, so
\* that a chain moves on instead of returning it.
C17_FailuresAreErrorStrings ==
    reply.status # "none" /\ BackendFailed(reply.backend) =>
        /\ reply.status = "returned"
        /\ IsErrorResponse(reply.text)

(***************************************************************************)
(* Properties of the conversions of a conversation (specification          *)
(* SpecText)                                                               *)
(***************************************************************************)
\* The texts `blocks` occur in `text` at or after position `from`, one after
\* the other in the order given, without overlapping.
RECURSIVE InOrder(_, _, _)
InOrder(text, from, blocks) ==
    IF blocks = << >> THEN TRUE
    ELSE \E i \in from..(Len(text) - Len(Head(blocks)) + 1) :
            /\ SubSeq(text, i, i + Len(Head(blocks)) - 1) = Head(blocks)
            /\ InOrder(text, i + Len(Head(blocks)), Tail(blocks))

RECURSIVE TotalLen(_)
TotalLen(blocks) == IF blocks = << >> THEN 0 ELSE Len(Head(blocks)) + TotalLen(Tail(blocks))

\* The messages of the conversation with, and without, the role system.
SystemMessages == SelectSeq(messages, LAMBDA m : m.role = "system")

NonSystemMessages == SelectSeq(messages, LAMBDA m : m.role # "system")

ContentsOf(ms) == [i \in 1..Len(ms) |-> ms[i].content]

\* C18: the request of the Anthropic provider has in its system field the
\* contents of all system messages in their original order and nothing
\* else but what joins them, and has as its messages array exactly the
\* non-system messages in their original order.
C18_SystemHoistedOrderKept ==
    request.status = "sent" =>
        /\ request.messages = NonSystemMessages
        /\ InOrder(request.system, 1, ContentsOf(SystemMessages))
        /\ Len(request.system) =
              TotalLen(ContentsOf(SystemMessages))
                  + (IF SystemMessages = << >> THEN 0
                     ELSE Len(SystemSeparator) * (Len(SystemMessages) - 1))

\* A conversation with two system messages of different content around a
\* user message was sent.
C18_Witness ==
    /\ request.status = "sent"
    /\ Len(messages) = 3
    /\ messages[1].role = "system" /\ messages[2].role = "user" /\ messages[3].role = "system"
    /\ messages[1].content # messages[3].content
    /\ Len(request.messages) = 1

\* The label a flattener prints for a role.
BlockLabel(by, role) ==
    CASE role = "system" -> <<"S", "y", "s", "t", "e", "m">>
      [] role = "user" -> <<"U", "s", "e", "r">>
      [] role = "assistant" -> <<"A", "s", "s", "i", "s", "t", "a", "n", "t">>
      [] OTHER -> IF by = "ClaudeCodeLLM" THEN RoleText(role) ELSE << >>

\* The messages a flattener prints: BaseLLMProvider leaves out a message
\* whose role is none of the three.
Printed(by) ==
    IF by = "ClaudeCodeLLM" THEN messages
    ELSE SelectSeq(messages, LAMBDA m : m.role \in {"system", "user", "assistant"})

\* The 'Role: content' blocks of the conversation, in its order.
Blocks(by) ==
    [i \in 1..Len(Printed(by)) |->
        BlockLabel(by, Printed(by)[i].role) \o <<":", " ">> \o Printed(by)[i].content]

\* C19: flattening leaves the conversation as the caller built it, two
\* flattenings of it by the same flattener give the same text, and the
\* blocks of the messages occur in the text in the order of the messages.
C19_FlatteningPureOrderPreserving ==
    /\ messages = messages0
    /\ \A i, j \in 1..Len(prompts) :
          prompts[i].by = prompts[j].by => prompts[i].text = prompts[j].text
    /\ \A i \in 1..Len(prompts) : InOrder(prompts[i].text, 1, Blocks(prompts[i].by))

\* A conversation of three messages, no two alike, was flattened twice by
\* each flattener.
C19_Witness ==
    /\ Len(messages) = 3
    /\ messages[1] # messages[2] /\ messages[2] # messages[3] /\ messages[1] # messages[3]
    /\ Len(Flattened("BaseLLMProvider")) = 2
    /\ Len(Flattened("ClaudeCodeLLM")) = 2

\* A blank line: two newline characters.
BlankLine == <<"\n", "\n">>

\* C20 as stated: for a conversation of system, user and assistant
\* messages, the prompt of either flattener is the 'Role: content' blocks
\* of all its messages with a blank line between consecutive blocks, so
\* that both flatteners give the same text.
C20_BlocksSeparatedByBlankLine ==
    (\A k \in 1..Len(messages) : messages[k].role \in {"system", "user", "assistant"}) =>
        /\ \A i \in 1..Len(prompts) : prompts[i].text = Join(BlankLine, Blocks("ClaudeCodeLLM"))
        /\ \A i, j \in 1..Len(prompts) : prompts[i].text = prompts[j].text

----------------------------------------------------------------------------
\* C22: create_best_available raises "No LLM providers available!"
\* (RuntimeError) exactly when it reaches its end with an empty candidate
\* list, which is when every candidate it tried, the subprocess backend
\* included, failed to construct; whenever at least one candidate was
\* constructed it returns a provider: the only one, or the chain of all.
C22_RaisesExactlyWhenListEmpty ==
    /\ bestRet.status = "raised"
           <=> (bestPc = "done" /\ bestProviders = << >>)
    /\ bestRet.status = "raised"
           => /\ bestRet.exc = "RuntimeError"
              /\ probeLog # << >>
              /\ probeLog[Len(probeLog)].cand = "ClaudeCode"
              /\ \A i \in 1..Len(probeLog) : probeLog[i].outcome # "none"
    /\ (bestPc = "done" /\ \E i \in 1..Len(probeLog) : probeLog[i].outcome = "none")
           => /\ bestRet.status = "returned"
              /\ bestRet.provider =
                     IF Len(bestProviders) = 1 THEN Provider(bestProviders[1])
                     ELSE FallbackProvider(bestProviders)

\* every candidate was tried and none could be constructed (the hosted ones
\* among them), and the policy raised
C22_Witness ==
    /\ prefer_api
    /\ bestPc = "done"
    /\ Len(probeLog) = 4
    /\ \A i \in 1..4 : probeLog[i].outcome # "none"
    /\ bestRet = RaisedError("RuntimeError")

----------------------------------------------------------------------------
\* C25: a role call whose bounded wait expires while its backend call is
\* still queued behind another call of the shared provider is cancelled
\* before it starts: that backend call is never executed, then or later, and
\* holds no result. The roles share one provider, so of the calls launched
\* together at most one runs, the earlier one, and the other stays queued
\* behind it while the wait of its role is running (the role is awaiting
\* that very call).
C25_QueuedCallCancelledNeverRuns ==
    /\ [](\A j \in 1..Len(jobs) :
            /\ jobs[j].expired = "queued"
                   => /\ jobs[j].state = "skipped"
                      /\ jobs[j].future = "cancelled"
                      /\ jobs[j].result = NoText
            /\ (j \in PoolQueued /\ jobs[j].caller \in Roles)
                   => /\ roles[jobs[j].caller].pc = "awaiting"
                      /\ roles[jobs[j].caller].job = j
            /\ (j \in PoolRunning)
                   => /\ PoolRunning = {j}
                      /\ \A q \in PoolQueued : j < q)
    /\ [][\A j \in 1..Len(jobs) :
            jobs[j].state = "skipped" => jobs'[j] = jobs[j]]_vars

\* the two planning calls are launched together; the architect's wait runs
\* out while the product manager's call still occupies the worker, that call
\* finishes later, and the architect's call has still not been run
C25_Witness ==
    /\ Len(jobs) >= 2
    /\ jobs[1].caller = "ProductManager"
    /\ jobs[2].caller = "Architect"
    /\ jobs[1].state = "done"
    /\ jobs[1].expired = "no"
    /\ jobs[2].expired = "queued"
    /\ jobs[2].state = "skipped"
    /\ roles["Architect"].response = TimeoutSentinel("Architect")
    /\ roles["ProductManager"].response.job = 1

----------------------------------------------------------------------------
\* The last n entries of a list (all of it when it has fewer).
LastEntries(list, n) ==
    IF Len(list) <= n THEN list ELSE SubSeq(list, Len(list) - n + 1, Len(list))

\* The runs of role r that have ended.
RunsEnded(r) ==
    Cardinality({j \in 1..Len(jobs) : jobs[j].caller = r})
        - (IF roles[r].pc = "awaiting" THEN 1 ELSE 0)

\* C26: a role's memory never holds more than 3 entries and, once a run has
\* ended, at least 1; it holds 1, 2, 3, 2, 3, 2, ... entries after the first,
\* second, ... run. Each run that ends (with the backend's text, an error
\* string or the timeout sentinel) puts exactly one entry, made from its
\* response, at the end of the memory, and when that makes 4 entries only the
\* 2 newest stay; no other step touches the memory, so the entries are in the
\* order of the runs.
C26_MemoryBoundedOneEntryPerRun ==
    /\ [](\A r \in Roles :
            /\ Len(roles[r].memory) <= 3
            /\ RunsEnded(r) >= 1 => Len(roles[r].memory) >= 1
            /\ Len(roles[r].memory) =
                   IF RunsEnded(r) <= 3 THEN RunsEnded(r) ELSE 2 + (RunsEnded(r) % 2))
    /\ [][\A r \in Roles :
            IF roles[r].pc = "awaiting" /\ roles'[r].pc # "awaiting"
            THEN LET entry == [body |-> <<r, ": ", roles'[r].response.body, "...">>,
                               len |-> RoleNameLen[r] + 2
                                         + (IF roles'[r].response.len > 200 THEN 200
                                            ELSE roles'[r].response.len) + 3,
                               job |-> roles'[r].response.job]
                     all == Append(roles[r].memory, entry)
                 IN roles'[r].memory = IF Len(all) = 4 THEN LastEntries(all, 2) ELSE all
            ELSE roles'[r].memory = roles[r].memory]_vars

\* a role has run four times, the third run timed out and the fourth got a
\* long text: the memory was cut back to the entries of those two runs
C26_Witness ==
    \E r \in Roles :
        /\ RunsEnded(r) = 4
        /\ Len(roles[r].memory) = 2
        /\ roles[r].memory[1] = MemoryEntry(r, TimeoutSentinel(r))
        /\ roles[r].memory[2].job = 4
        /\ roles[r].memory[2].len = RoleNameLen[r] + 2 + 200 + 3
        /\ roles[r].response.len = 250

(***************************************************************************)
(* Properties of run_fast_project (specifications SpecProject,             *)
(* SpecProjectFair)                                                        *)
(***************************************************************************)
\* Both planning roles are hired.
PlanningHired == {"ProductManager", "Architect"} \subseteq project.hired

\* The call events of the log for one results key.
CallsFor(key) == {i \in 1..Len(project.log) : project.log[i].key = key}

\* C21: the requirements and the architecture call are issued together, both
\* before either has ended, and whichever of the two ends first, the entries
\* 'requirements' and 'architecture' are written, and the implementation
\* phase is begun, only when both runs have returned; the entries then hold
\* what the two runs returned.
C21_PlanningJoinedBeforeUse ==
    /\ (CallsFor("requirements") # {} \/ CallsFor("architecture") # {})
           => /\ Len(project.log) >= 2
              /\ project.log[1].key = "requirements"
              /\ project.log[2].key = "architecture"
              /\ project.log[1].job = 1
              /\ project.log[2].job = 2
              /\ project.log[1].memory = << >>
              /\ project.log[2].memory = << >>
    /\ (Has(project.results, "requirements") \/ Has(project.results, "architecture"))
           => /\ roles["ProductManager"].pc = "returned"
              /\ roles["Architect"].pc = "returned"
              /\ Get(project.results, "requirements") = roles["ProductManager"].response
              /\ Get(project.results, "architecture") = roles["Architect"].response
    /\ (PlanningHired /\ (project.pc \in {"implementation", "testing", "done"}
                          \/ project.impl_results # << >>
                          \/ Len(project.log) > 2))
           => /\ roles["ProductManager"].pc = "returned"
              /\ roles["Architect"].pc = "returned"
              /\ Has(project.results, "requirements")
              /\ Has(project.results, "architecture")

\* the architect's wait ran out while its call was queued, so its run ended
\* before the product manager's, whose call then finished with a text: the
\* two entries are written and the first implementation call is out
C21_Witness ==
    /\ project.pc = "implementation"
    /\ Len(project.log) = 3
    /\ jobs[2].expired = "queued"
    /\ jobs[1].future = "done"
    /\ Get(project.results, "requirements") = jobs[1].result
    /\ Get(project.results, "architecture") = TimeoutSentinel("Architect")
    /\ roles["FrontendEngineer"].pc = "awaiting"

----------------------------------------------------------------------------
\* No provider call of the project ended with an exception.
NoProviderException == \A j \in 1..Len(jobs) : jobs[j].future # "exception"

\* The entry written for a key so far, in results or still in impl_results.
IsRecorded(key) == Has(project.results, key) \/ Has(project.impl_results, key)

Recorded(key) ==
    IF Has(project.results, key) THEN Get(project.results, key)
    ELSE Get(project.impl_results, key)

\* The keys run_fast_project of this team is to return.
ExpectedKeys ==
    {Steps[i] : i \in 1..Len(Steps)}
        \cup (IF PlanningHired THEN {"requirements", "architecture"} ELSE {})
        \cup (IF "QualityAssurance" \in project.hired THEN {"testing"} ELSE {})

\* C23: as long as every provider call ends with a clean text, an error
\* string or the expiry of the bounded wait, no exception leaves a role or
\* run_fast_project, and run_fast_project comes to its end and returns the
\* results: one entry per key of the phases the team has roles for, each the
\* text its call produced, which for a failed call is the provider's error
\* string or 'Task timed out for <role name>. Consider breaking into smaller
\* steps.'
C23_FailuresAreTextInResults ==
    /\ [](NoProviderException =>
            /\ project.pc # "raised"
            /\ \A r \in DOMAIN roles : roles[r].pc # "raised"
            /\ \A i \in 1..Len(project.log) :
                 LET e == project.log[i]
                 IN IsRecorded(e.key) =>
                        /\ Recorded(e.key).len > 0
                        /\ Recorded(e.key) =
                               IF jobs[e.job].expired # "no"
                               THEN [body |-> <<"Task timed out for ", e.role,
                                                ". Consider breaking into smaller steps.">>,
                                     len |-> 19 + RoleNameLen[e.role] + 39, job |-> 0]
                               ELSE jobs[e.job].result
            /\ project.pc = "done" =>
                   /\ {project.results[i].key : i \in 1..Len(project.results)} = ExpectedKeys
                   /\ Len(project.results) = Cardinality(ExpectedKeys))
    /\ <>(project.pc = "done" \/ ~NoProviderException)

\* the whole team ran a project in which the requirements call came back as
\* an error string, the architect's wait expired and the first
\* implementation call timed out as well: the results are returned with
\* those texts beside the clean ones
C23_Witness ==
    /\ project.pc = "done"
    /\ NoProviderException
    /\ project.hired = TeamRoles
    /\ Get(project.results, "requirements").body = <<"Claude Code Error: ", "x">>
    /\ Get(project.results, "architecture") = TimeoutSentinel("Architect")
    /\ Get(project.results, "html_structure") = TimeoutSentinel("FrontendEngineer")
    /\ Get(project.results, "integration").len = 250
    /\ Get(project.results, "testing").len = 250

----------------------------------------------------------------------------
\* C27: every conversation a role sends starts with the system message
\* 'You are a <profile>. <role prompt>' and ends with the user message
\* holding the instruction it was given. It has a third message exactly when
\* the role's memory was not empty at the start of the run: a system message
\* 'Context: ...' between those two, made of the last 2 memory entries (of
\* the only entry when there is one), oldest first.
C27_ConversationShape ==
    \A i \in 1..Len(project.log) :
        LET e == project.log[i]
            m == e.messages
            n == Len(e.memory)
        IN /\ Len(m) = (IF n = 0 THEN 2 ELSE 3)
           /\ m[1].role = "system"
           /\ m[1].content = <<"You are a ", Profile[e.role], ". ", RolePrompt[e.role]>>
           /\ m[1].joined = << >>
           /\ m[Len(m)].role = "user"
           /\ m[Len(m)].content = e.instruction
           /\ m[Len(m)].joined = << >>
           /\ n > 0 =>
                  /\ m[2].role = "system"
                  /\ m[2].content = <<"Context: ">>
                  /\ Len(m[2].joined) = (IF n = 1 THEN 1 ELSE 2)
                  /\ \A k \in 1..Len(m[2].joined) :
                         m[2].joined[k] = e.memory[n - Len(m[2].joined) + k]

\* the frontend engineer's fourth call: its memory held 3 entries, and the
\* context message carries the second and the third
C27_Witness ==
    \E i \in 1..Len(project.log) :
        /\ project.log[i].key = "integration"
        /\ Len(project.log[i].memory) = 3
        /\ Len(project.log[i].messages) = 3
        /\ project.log[i].messages[2].joined =
               <<project.log[i].memory[2], project.log[i].memory[3]>>
        /\ project.log[i].memory[1] # project.log[i].memory[2]

----------------------------------------------------------------------------
\* C28: run_fast_project enters the planning phase only when the team has
\* both a ProductManager and an Architect. When one of them is missing, the
\* one that is hired (if any) is never called, so it stays as constructed,
\* and the results never get the key 'requirements' or 'architecture'.
C28_PlanningNeedsBothRoles ==
    /\ project.pc = "planning" => PlanningHired
    /\ ~PlanningHired =>
           /\ \A j \in 1..Len(jobs) : jobs[j].caller \notin {"ProductManager", "Architect"}
           /\ \A r \in {"ProductManager", "Architect"} \cap project.hired : roles[r] = NewRole
           /\ CallsFor("requirements") = {} /\ CallsFor("architecture") = {}
           /\ ~Has(project.results, "requirements")
           /\ ~Has(project.results, "architecture")
    /\ (PlanningHired /\ project.pc = "done") =>
           /\ Has(project.results, "requirements")
           /\ Has(project.results, "architecture")

\* a team with a ProductManager but no Architect has run its project to the
\* end: the other phases ran, the ProductManager was never asked
C28_Witness ==
    /\ project.pc = "done"
    /\ "ProductManager" \in project.hired
    /\ "Architect" \notin project.hired
    /\ "QualityAssurance" \in project.hired
    /\ "FrontendEngineer" \in project.hired
    /\ roles["ProductManager"] = NewRole
    /\ Len(project.results) = 5
    /\ project.results[1].key = "html_structure"
    /\ Has(project.results, "testing")

----------------------------------------------------------------------------
\* The calls of the log made for implementation steps, in the order made.
StepCalls == SelectSeq(project.log, LAMBDA e : e.key \in {Steps[i] : i \in 1..Len(Steps)})

Wrapped(prompt, files) ==
    <<"\nProject Context:\n", "Project Path: ", "/work/app">>
        \o (IF files = << >> THEN << >>
            ELSE <<"\n", "Key files present: ">>
                     \o [i \in 1..(2 * Len(files) - 1) |->
                            IF i % 2 = 1 THEN files[(i + 1) \div 2] ELSE ", "])
        \o <<"\n\nTask:\n">> \o prompt
        \o <<"\n\nPlease provide a response considering the project context above.\n">>

\* C30: a call of either form made while the project path exists runs the
\* subprocess with the prompt wrapped in the project-context block (project
\* path and the key files present) and with no working directory; a call
\* made while the path does not exist, for which no context can be made,
\* runs it with the prompt as given and the project path as working
\* directory. So the working directory is set only in calls without a
\* project context.
C30_ContextCallsRunWithoutCwd ==
    \A i \in 1..Len(invocations) :
        LET v == invocations[i]
        IN /\ v.exists =>
                  /\ v.cwd = "None"
                  /\ \E files \in {<< >>, <<"README.md">>, <<"package.json", ".env">>,
                                   <<"README.md", "CLAUDE.md">>} :
                         v.prompt = Wrapped(v.given, files)
           /\ ~v.exists =>
                  /\ v.cwd = "/work/app"
                  /\ v.prompt = v.given
           /\ v.cwd # "None" <=> v.prompt = v.given

\* a blocking call made while the project directory held README.md and
\* CLAUDE.md, and a non-blocking call made after the directory was removed
C30_Witness ==
    /\ Len(invocations) = 2
    /\ invocations[1].form = "completion_text"
    /\ invocations[1].exists
    /\ invocations[1].cwd = "None"
    /\ invocations[1].prompt = Wrapped(<<"User: a">>, <<"README.md", "CLAUDE.md">>)
    /\ invocations[2].form = "acompletion_text"
    /\ ~invocations[2].exists
    /\ invocations[2].cwd = "/work/app"
    /\ invocations[2].prompt = invocations[2].given

(***************************************************************************)
(* Properties of the two forms of a call (specification SpecForms)         *)
(***************************************************************************)
\* C24 as stated: for every provider, chain or concrete, and every outcome
\* of the provider calls, completion_text hands back what acompletion_text
\* hands back for the same outcomes, whether or not the caller runs inside
\* an active event loop.
C24_BlockingFormReturnsSameText ==
    blocking.status # "none" =>
        /\ blocking.status = result.status
        /\ blocking.text = result.text

====
